---- MODULE Spec2Model ----
(***************************************************************************)
(* Session state machine and tool-approval coordination of zuck-agent.     *)
(*                                                                         *)
(* The module holds these specifications over the same variables:          *)
(*   SpecSM  the Session Store driven call by call through one persistence *)
(*           handle (the setting of tests/test_session_manager.py);        *)
(*   SpecAH  the Approval Coordinator driven call by call for two sessions *)
(*           (the setting of tests/test_approval_handler.py);              *)
(*   Spec    one session end to end: the orchestrator's background turn,   *)
(*           the approval hooks of the agent runtime and the foreground    *)
(*           approve / deny / cancel requests, interleaved at the points   *)
(*           where the code suspends on I/O;                               *)
(*   FairSpec  Spec with the event loop resuming every ready hook;         *)
(*   SpecCmd  the approval rules and the risk engine applied to one tool   *)
(*           invocation (pure functions of the tool, rule and command);    *)
(*   SpecStream  the turns of one session one after the other, each        *)
(*           consuming its event stream event by event and storing the     *)
(*           rows, the external id, the cost and the final status;         *)
(*   SpecDiff  generate_write_diff applied to the content of one file.     *)
(*   SpecRules  ApprovalHandler instances constructed one after the other  *)
(*           from the default rules or from rule sets of the caller;       *)
(*   SpecProj  ProjectRegistry calls one after the other on one handle;    *)
(*   SpecWS  the ConnectionManager: endpoint calls connecting and          *)
(*           disconnecting websockets while broadcasts are in progress.    *)
(***************************************************************************)
EXTENDS Integers, Sequences, FiniteSets, TLC

VARIABLES
    db,        \* the persisted session row (the sessions table, one session)
    tcache,    \* identity map of the handle used by SpecSM's SessionManager
    call,      \* SpecSM: the last SessionManager call and its outcome
    reqs,      \* every PendingApprovalRequest object created so far, by id
    pending,   \* ApprovalHandler._pending: session id -> request id (0: none)
    ahcall,    \* SpecAH: the last ApprovalHandler call and its outcome
    turn,      \* the orchestrator's background turn: position, handle, locals
    turns,     \* number of turns started
    active,    \* AgentRuntime._active_clients holds a client for the session
    callback,  \* AgentRuntime._approval_callbacks holds the session's callback
    hooks,     \* the approval hook invocations in progress, by slot
    nhooks,    \* number of hook invocations started
    fg,        \* the foreground request (approve, deny or cancel) in progress
    nfg,       \* number of foreground requests started
    fn         \* the state of the specifications that are not about the
               \* session row (SpecCmd, SpecDiff, SpecStream, SpecRules,
               \* SpecProj, SpecWS); fn.op tells which one is running

smvars == <<tcache, call>>
ahvars == <<ahcall>>
sysvars == <<turn, turns, active, callback, hooks, nhooks, fg, nfg>>
vars == <<db, tcache, call, reqs, pending, ahcall, turn, turns, active,
          callback, hooks, nhooks, fg, nfg, fn>>

(***************************************************************************)
(* Values                                                                  *)
(***************************************************************************)
IDLE == "idle"
RUNNING == "running"
WAITING_APPROVAL == "waiting_approval"
COMPLETED == "completed"
ERROR == "error"

SessionStatus == {IDLE, RUNNING, WAITING_APPROVAL, COMPLETED, ERROR}

\* Python's None for the nullable text columns.
None == "None"

\* A null pending_approval column; a payload carries the fields the claims read.
NoPayload == [tool_name |-> None, tool_use_id |-> None]

Payloads == { [tool_name |-> "Write", tool_use_id |-> "call-1"],
              [tool_name |-> "Bash", tool_use_id |-> "call-2"] }

\* The identity map of a handle that has not loaded the session yet.
NotLoaded == [status |-> "not_loaded", error_message |-> None,
              pending_approval |-> NoPayload, claude_session_id |-> None,
              total_cost_usd |-> 0]

\* SessionManager.create_session: the row of a new session.
\* total_cost_usd is counted in cents.
NewSession == [status |-> IDLE, error_message |-> None,
               pending_approval |-> NoPayload, claude_session_id |-> None,
               total_cost_usd |-> 0]

Columns == {"status", "error_message", "pending_approval", "claude_session_id",
            "total_cost_usd"}

(***************************************************************************)
(* Session Store                                                           *)
(***************************************************************************)
\* A transition table that lets a finished session fail (mutant).
VALID_TRANSITIONS_LooseTerminal == [s \in SessionStatus |->
    CASE s = IDLE -> {RUNNING}
      [] s = RUNNING -> {WAITING_APPROVAL, COMPLETED, ERROR}
      [] s = WAITING_APPROVAL -> {RUNNING}
      [] s = COMPLETED -> {RUNNING, ERROR}
      [] s = ERROR -> {RUNNING}]

VALID_TRANSITIONS == [s \in SessionStatus |->
    CASE s = IDLE -> {RUNNING}
      [] s = RUNNING -> {WAITING_APPROVAL, COMPLETED, ERROR}
      [] s = WAITING_APPROVAL -> {RUNNING}
      [] s = COMPLETED -> {RUNNING}
      [] s = ERROR -> {RUNNING}]

\* SessionManager.get_session on a handle: the SELECT returns the row, but an
\* object already in the handle's identity map keeps its loaded attributes
\* (the session factories are built with expire_on_commit=False).
get_session(cache, row) == IF cache = NotLoaded THEN row ELSE cache

\* update_session_status, lines 213-229: the attribute assignments on the
\* loaded object, given its status before the call.
ApplyTransition(session, new_status, error_message, claude_session_id) ==
    LET s1 == [session EXCEPT !.status = new_status]
        s2 == IF new_status = ERROR
                 THEN [s1 EXCEPT !.error_message = error_message]
                 ELSE IF new_status = RUNNING
                        THEN [s1 EXCEPT !.error_message = None]
                        ELSE s1
        s3 == IF claude_session_id # None
                 THEN [s2 EXCEPT !.claude_session_id = claude_session_id]
                 ELSE s2
    IN  IF session.status = WAITING_APPROVAL
          THEN [s3 EXCEPT !.pending_approval = NoPayload]
          ELSE s3

\* db.commit(): the flush writes the columns whose attribute changed on the
\* object since it was loaded, and leaves the others as stored.
Flush(row, loaded, session) ==
    [c \in Columns |-> IF session[c] # loaded[c] THEN session[c] ELSE row[c]]

\* set_pending_approval accepts RUNNING and also IDLE (mutant).
CanSetPendingApproval_AlsoIdle(session) == session.status \in {RUNNING, IDLE}

\* set_pending_approval, lines 256-260: the precondition on the loaded status.
CanSetPendingApproval(session) == session.status = RUNNING

\* set_pending_approval, lines 262-263.
ApplyPendingApproval(session, approval_data) ==
    [session EXCEPT !.pending_approval = approval_data,
                    !.status = WAITING_APPROVAL]

(***************************************************************************)
(* Approval Coordinator                                                    *)
(***************************************************************************)
Sessions == {"A", "B"}

\* Feedback texts: absent, empty, and a text.
Feedbacks == {None, "", "looks good"}

\* Python's truth value of an optional text: None and "" are false.
Falsy(text) == text \in {None, ""}

\* deny_tool_use, line 483: denial.feedback or "User denied tool execution".
DENY_DEFAULT == "User denied tool execution"

DenyFeedback(feedback) == IF Falsy(feedback) THEN DENY_DEFAULT ELSE feedback

\* approval_hook, line 590: the reason of a denial that carries no feedback.
DeniedReason(tool_name) ==
    CASE tool_name = "Write" -> "User denied Write execution"
      [] tool_name = "Bash" -> "User denied Bash execution"
      [] OTHER -> "User denied execution"

\* A hook that passes the recorded feedback on as it is (mutant).
HookResult_FeedbackOnly(request) ==
    IF request.approved = "True"
      THEN [ret |-> "allow", reason |-> None]
      ELSE [ret |-> "deny", reason |-> request.feedback]

\* approval_hook, lines 580-600: the permission decision for a request
\* whose gate is open.
HookResult(request) ==
    IF request.approved = "True"
      THEN [ret |-> "allow", reason |-> None]
      ELSE [ret |-> "deny",
            reason |-> IF Falsy(request.feedback)
                         THEN DeniedReason(request.tool_name)
                         ELSE request.feedback]

CLEARED_FEEDBACK == "Approval cleared (session cancelled)"

\* PendingApprovalRequest as queue_approval builds it: gate closed, no decision.
\* approved is None, "True" or "False".
NewRequest(session_id, tool_name, tool_use_id) ==
    [session_id |-> session_id, tool_name |-> tool_name,
     tool_use_id |-> tool_use_id, event |-> FALSE,
     approved |-> None, feedback |-> None]

\* queue_approval that keeps an existing pending request (mutant).
QueueApproval_KeepExisting(rq, pd, session_id, tool_name, tool_use_id) ==
    [reqs |-> Append(rq, NewRequest(session_id, tool_name, tool_use_id)),
     pending |-> IF pd[session_id] # 0 THEN pd
                 ELSE [pd EXCEPT ![session_id] = Len(rq) + 1],
     ret |-> Len(rq) + 1]

\* ApprovalHandler.queue_approval: a new request object replaces whatever the
\* pending map held for the session; the new request is returned.
QueueApproval(rq, pd, session_id, tool_name, tool_use_id) ==
    [reqs |-> Append(rq, NewRequest(session_id, tool_name, tool_use_id)),
     pending |-> [pd EXCEPT ![session_id] = Len(rq) + 1],
     ret |-> Len(rq) + 1]

\* ApprovalHandler.get_pending: the request id, 0 for None.
GetPending(pd, session_id) == pd[session_id]

\* process_decision that leaves the resolved request in the map (mutant).
ProcessDecision_NoRemove(rq, pd, session_id, approved, feedback) ==
    IF pd[session_id] = 0
      THEN [reqs |-> rq, pending |-> pd, ret |-> FALSE]
      ELSE [reqs |-> [rq EXCEPT ![pd[session_id]].approved = approved,
                                ![pd[session_id]].feedback = feedback,
                                ![pd[session_id]].event = TRUE],
            pending |-> pd,
            ret |-> TRUE]

\* process_decision that opens the gate of every unresolved request of the
\* session, replaced ones included (mutant).
ProcessDecision_SignalAll(rq, pd, session_id, approved, feedback) ==
    IF pd[session_id] = 0
      THEN [reqs |-> rq, pending |-> pd, ret |-> FALSE]
      ELSE [reqs |-> [r \in DOMAIN rq |->
                        IF rq[r].session_id = session_id /\ ~rq[r].event
                          THEN [rq[r] EXCEPT !.approved = approved,
                                             !.feedback = feedback,
                                             !.event = TRUE]
                          ELSE rq[r]],
            pending |-> [pd EXCEPT ![session_id] = 0],
            ret |-> TRUE]

\* ApprovalHandler.process_decision.
ProcessDecision(rq, pd, session_id, approved, feedback) ==
    IF pd[session_id] = 0
      THEN [reqs |-> rq, pending |-> pd, ret |-> FALSE]
      ELSE [reqs |-> [rq EXCEPT ![pd[session_id]].approved = approved,
                                ![pd[session_id]].feedback = feedback,
                                ![pd[session_id]].event = TRUE],
            pending |-> [pd EXCEPT ![session_id] = 0],
            ret |-> TRUE]

\* clear_pending that removes the request without opening its gate (mutant).
ClearPending_NoSignal(rq, pd, session_id) ==
    IF pd[session_id] = 0
      THEN [reqs |-> rq, pending |-> pd]
      ELSE [reqs |-> [rq EXCEPT ![pd[session_id]].approved = "False",
                                ![pd[session_id]].feedback = CLEARED_FEEDBACK],
            pending |-> [pd EXCEPT ![session_id] = 0]]

\* clear_pending that empties the whole pending map (mutant).
ClearPending_EverySession(rq, pd, session_id) ==
    [reqs |-> [r \in DOMAIN rq |->
                 IF \E s \in DOMAIN pd : pd[s] = r
                   THEN [rq[r] EXCEPT !.approved = "False",
                                      !.feedback = CLEARED_FEEDBACK,
                                      !.event = TRUE]
                   ELSE rq[r]],
     pending |-> [s \in DOMAIN pd |-> 0]]

\* ApprovalHandler.clear_pending.
ClearPending(rq, pd, session_id) ==
    IF pd[session_id] = 0
      THEN [reqs |-> rq, pending |-> pd]
      ELSE [reqs |-> [rq EXCEPT ![pd[session_id]].approved = "False",
                                ![pd[session_id]].feedback = CLEARED_FEEDBACK,
                                ![pd[session_id]].event = TRUE],
            pending |-> [pd EXCEPT ![session_id] = 0]]

(***************************************************************************)
(* State of the end-to-end system (Spec)                                   *)
(***************************************************************************)
\* The session Spec follows.
SID == "A"

Hooks == {1, 2}

\* result: the result event the turn's stream delivered, "none" before it;
\* content: the error text it carried; at_result: the stored status when it
\* arrived; escaped: an exception left start_session / resume_session.
NoTurn == [pc |-> "idle", cache |-> NotLoaded, kind |-> "start",
           init |-> FALSE, target |-> IDLE, error_message |-> None,
           next |-> "idle", success |-> FALSE, cost |-> 0,
           result |-> "none", content |-> None, at_result |-> None,
           escaped |-> FALSE]

\* A hook invocation: its position, the tool it was called for, the request
\* it queued (0: none), the callback's payload and handle, how the callback
\* ended, and the permission decision returned with its reason.
NoHook == [pc |-> "idle", tool_name |-> None, req |-> 0, data |-> NoPayload,
           row |-> NotLoaded, cb |-> "none", ret |-> None, reason |-> None]

\* A foreground request: its kind and position, the decision it carries, its
\* handle, its answer, and the tool-call id of the payload it found stored
\* (shown: what the client was looking at when deciding).
NoRequest == [kind |-> "none", pc |-> "idle", approved |-> None,
              feedback |-> None, row |-> NotLoaded, ret |-> None,
              shown |-> None]

(***************************************************************************)
(* SpecSM: SessionManager calls, one after the other, on one handle        *)
(***************************************************************************)
MaxCalls == 4

ErrorMessages == {None, "boom"}
ClaudeIds == {None, "ext-1"}

NoAHCall == [op |-> "none", seq |-> 0, session_id |-> "A", approved |-> None,
             feedback |-> None, ret |-> 0, decision |-> None, reason |-> None]

\* No function application (SpecSM, SpecAH, Spec).
NoFn == [op |-> "none"]

NoCall == [op |-> "none", seq |-> 0, new_status |-> IDLE, arg |-> NoPayload,
           before |-> NewSession, raised |-> None]

InitSM ==
    /\ db = NewSession
    /\ tcache = NotLoaded
    /\ call = NoCall
    /\ reqs = << >>
    /\ pending = [s \in Sessions |-> 0]
    /\ ahcall = NoAHCall
    /\ turn = NoTurn
    /\ turns = 0
    /\ active = FALSE
    /\ callback = FALSE
    /\ hooks = [h \in Hooks |-> NoHook]
    /\ nhooks = 0
    /\ fg = NoRequest
    /\ nfg = 0
    /\ fn = NoFn

\* SessionManager.update_session_status as one call.
update_session_status(new_status, error_message, claude_session_id, op) ==
    LET session == get_session(tcache, db)
        updated == ApplyTransition(session, new_status, error_message,
                                   claude_session_id)
    IN  /\ call.seq < MaxCalls
        /\ IF new_status \notin VALID_TRANSITIONS[session.status]
             THEN /\ call' = [op |-> op, seq |-> call.seq + 1,
                              new_status |-> new_status, arg |-> NoPayload,
                              before |-> db,
                              raised |-> "SessionStateError"]
                  /\ tcache' = session
                  /\ db' = db
             ELSE /\ call' = [op |-> op, seq |-> call.seq + 1,
                              new_status |-> new_status, arg |-> NoPayload,
                              before |-> db,
                              raised |-> None]
                  /\ db' = Flush(db, session, updated)
                  /\ tcache' = db'          \* db.refresh(session)
        /\ UNCHANGED <<reqs, pending, ahvars, sysvars, fn>>

SM_update_session_status ==
    \E new_status \in SessionStatus, e \in ErrorMessages, cid \in ClaudeIds :
        update_session_status(new_status, e, cid, "update_session_status")

\* SessionManager.set_pending_approval as one call.
SM_set_pending_approval ==
    \E approval_data \in Payloads :
        LET session == get_session(tcache, db)
        IN  /\ call.seq < MaxCalls
            /\ IF ~CanSetPendingApproval(session)
                 THEN /\ call' = [op |-> "set_pending_approval",
                                  seq |-> call.seq + 1,
                                  new_status |-> WAITING_APPROVAL,
                                  arg |-> approval_data,
                                  before |-> db, raised |-> "SessionStateError"]
                      /\ tcache' = session
                      /\ db' = db
                 ELSE /\ call' = [op |-> "set_pending_approval",
                                  seq |-> call.seq + 1,
                                  new_status |-> WAITING_APPROVAL,
                                  arg |-> approval_data,
                                  before |-> db, raised |-> None]
                      /\ db' = Flush(db, session,
                                     ApplyPendingApproval(session, approval_data))
                      /\ tcache' = db'
            /\ UNCHANGED <<reqs, pending, ahvars, sysvars, fn>>

\* SessionManager.complete_session (no final cost) and fail_session.
SM_complete_session ==
    update_session_status(COMPLETED, None, None, "complete_session")

SM_fail_session ==
    \E e \in ErrorMessages \ {None} :
        update_session_status(ERROR, e, None, "fail_session")

NextSM ==
    \/ SM_update_session_status
    \/ SM_set_pending_approval
    \/ SM_complete_session
    \/ SM_fail_session

SpecSM == InitSM /\ [][NextSM]_vars

(***************************************************************************)
(* SpecAH: ApprovalHandler calls, one after the other, for two sessions    *)
(***************************************************************************)
MaxAHCalls == 4

InitAH ==
    /\ db = NewSession
    /\ tcache = NotLoaded
    /\ call = NoCall
    /\ reqs = << >>
    /\ pending = [s \in Sessions |-> 0]
    /\ ahcall = NoAHCall
    /\ turn = NoTurn
    /\ turns = 0
    /\ active = FALSE
    /\ callback = FALSE
    /\ hooks = [h \in Hooks |-> NoHook]
    /\ nhooks = 0
    /\ fg = NoRequest
    /\ nfg = 0
    /\ fn = NoFn

\* ret: the request id for queue_approval and get_pending, 1 / 0 for the
\* boolean of process_decision, 0 for clear_pending (returns None).
AH_queue_approval ==
    \E s \in Sessions, p \in Payloads :
        LET r == QueueApproval(reqs, pending, s, p.tool_name, p.tool_use_id)
        IN  /\ ahcall.seq < MaxAHCalls
            /\ reqs' = r.reqs
            /\ pending' = r.pending
            /\ ahcall' = [op |-> "queue_approval", seq |-> ahcall.seq + 1,
                          session_id |-> s, approved |-> None,
                          feedback |-> None, ret |-> r.ret,
                          decision |-> None, reason |-> None]
            /\ UNCHANGED <<db, smvars, fn, sysvars>>

AH_get_pending ==
    \E s \in Sessions :
        /\ ahcall.seq < MaxAHCalls
        /\ ahcall' = [op |-> "get_pending", seq |-> ahcall.seq + 1,
                      session_id |-> s, approved |-> None,
                      feedback |-> None, ret |-> GetPending(pending, s),
                      decision |-> None, reason |-> None]
        /\ UNCHANGED <<db, smvars, fn, reqs, pending, sysvars>>

AH_process_decision ==
    \E s \in Sessions, a \in {"True", "False"}, f \in Feedbacks :
        LET r == ProcessDecision(reqs, pending, s, a, f)
        IN  /\ ahcall.seq < MaxAHCalls
            /\ reqs' = r.reqs
            /\ pending' = r.pending
            /\ ahcall' = [op |-> "process_decision", seq |-> ahcall.seq + 1,
                          session_id |-> s, approved |-> a,
                          feedback |-> f, ret |-> IF r.ret THEN 1 ELSE 0,
                          decision |-> None, reason |-> None]
            /\ UNCHANGED <<db, smvars, fn, sysvars>>

AH_clear_pending ==
    \E s \in Sessions :
        LET r == ClearPending(reqs, pending, s)
        IN  /\ ahcall.seq < MaxAHCalls
            /\ reqs' = r.reqs
            /\ pending' = r.pending
            /\ ahcall' = [op |-> "clear_pending", seq |-> ahcall.seq + 1,
                          session_id |-> s, approved |-> None,
                          feedback |-> None, ret |-> 0,
                          decision |-> None, reason |-> None]
            /\ UNCHANGED <<db, smvars, fn, sysvars>>

\* deny_tool_use, lines 483-486: the feedback handed to process_decision.
AH_deny_tool_use ==
    \E s \in Sessions, f \in Feedbacks :
        LET r == ProcessDecision(reqs, pending, s, "False", DenyFeedback(f))
        IN  /\ ahcall.seq < MaxAHCalls
            /\ reqs' = r.reqs
            /\ pending' = r.pending
            /\ ahcall' = [op |-> "deny_tool_use", seq |-> ahcall.seq + 1,
                          session_id |-> s, approved |-> "False",
                          feedback |-> f, ret |-> IF r.ret THEN 1 ELSE 0,
                          decision |-> None, reason |-> None]
            /\ UNCHANGED <<db, smvars, fn, sysvars>>

\* approval_hook, lines 580-600: the hook waiting on a request whose gate is
\* open returns. ret: the request.
AH_hook_result ==
    \E r \in DOMAIN reqs :
        /\ ahcall.seq < MaxAHCalls
        /\ reqs[r].event
        /\ ahcall' = [op |-> "hook_result", seq |-> ahcall.seq + 1,
                      session_id |-> reqs[r].session_id,
                      approved |-> reqs[r].approved,
                      feedback |-> reqs[r].feedback, ret |-> r,
                      decision |-> HookResult(reqs[r]).ret,
                      reason |-> HookResult(reqs[r]).reason]
        /\ UNCHANGED <<db, smvars, fn, reqs, pending, sysvars>>

NextAH ==
    \/ AH_queue_approval
    \/ AH_get_pending
    \/ AH_process_decision
    \/ AH_clear_pending
    \/ AH_deny_tool_use
    \/ AH_hook_result

SpecAH == InitAH /\ [][NextAH]_vars

(***************************************************************************)
(* Spec: the orchestrator's turn                                           *)
(*                                                                         *)
(* A step is one resumption of a coroutine: the database read or write it  *)
(* was suspended on, and the code that follows up to the next suspension.  *)
(* The ApprovalHandler's lock is never held across a suspension, so its    *)
(* operations are single steps.                                            *)
(***************************************************************************)
MaxTurns == 1
MaxHookCalls == 2
MaxRequests == 1

APPROVAL_TIMEOUT_SECONDS == 300

ADAPTER_ERROR == "Unexpected error: boom"
STATE_ERROR == "Unexpected error: Invalid state transition"
NOT_FOUND_ERROR == "Unexpected error: Session not found"
RESULT_ERROR == "Session ended with error"
CANCEL_ERROR == "Session cancelled by user"

\* Costs a result event reports, in cents; 0 stands for no cost.
Costs == {0, 2}

\* The error text a failed result event carries; None: it carries none.
ResultTexts == {None, "agent failed"}

get_error_message_AlwaysDefault(content) == RESULT_ERROR

\* MessageMapper.get_error_message: the event's content, or the default.
get_error_message(content) ==
    IF content = None THEN RESULT_ERROR ELSE content

\* SessionManager.delete_session: the session's row is gone.
DELETED == "deleted"
DeletedRow == [NotLoaded EXCEPT !.status = DELETED]
Deleted == db.status = DELETED

HooksQuiet == \A h \in Hooks : hooks[h].pc \in {"idle", "done"}

\* create_session / send_prompt schedule start_session or resume_session;
\* _setup_approval_hooks registers the session's callback.
TurnStart ==
    /\ turn.pc = "idle"
    /\ turns < MaxTurns
    /\ turns' = turns + 1
    /\ callback' = TRUE
    /\ turn' = [NoTurn EXCEPT !.pc = "to_running",
                              !.kind = IF db.claude_session_id # None
                                         THEN "resume" ELSE "start"]
    /\ UNCHANGED <<db, smvars, fn, reqs, pending, ahvars, active, hooks, nhooks,
                   fg, nfg>>

\* update_session_status up to its commit, on the turn's handle: the check
\* of the transition table against the status the handle holds. A rejected
\* transition raises SessionStateError, which start_session / resume_session
\* catch and hand to _safe_fail_session.
TurnUpdate(t, session, new_status, error_message, next) ==
    IF new_status \in VALID_TRANSITIONS[session.status]
      THEN [t EXCEPT !.pc = "upd_commit", !.cache = session,
                     !.target = new_status,
                     !.error_message = error_message, !.next = next]
      ELSE [t EXCEPT !.pc = "fail", !.cache = session,
                     !.error_message = STATE_ERROR]

\* _transition_to_running: read the session; nothing to do when RUNNING.
TransitionToRunning ==
    /\ turn.pc = "to_running"
    /\ ~Deleted
    /\ LET session == get_session(turn.cache, db)
       IN  turn' = IF session.status = RUNNING
                     THEN [turn EXCEPT !.pc = "connect", !.cache = session]
                     ELSE TurnUpdate(turn, session, RUNNING, None, "connect")
    /\ UNCHANGED <<db, smvars, fn, reqs, pending, ahvars, turns, active, callback,
                   hooks, nhooks, fg, nfg>>

\* update_session_status, lines 213-231: assignments and commit.
TurnCommit ==
    /\ turn.pc = "upd_commit"
    /\ ~Deleted
    /\ LET updated == ApplyTransition(turn.cache, turn.target,
                                      turn.error_message, None)
       IN  /\ db' = Flush(db, turn.cache, updated)
           /\ turn' = [turn EXCEPT !.pc = "upd_refresh", !.cache = updated]
    /\ UNCHANGED <<smvars, fn, reqs, pending, ahvars, turns, active, callback,
                   hooks, nhooks, fg, nfg>>

\* update_session_status, line 232: db.refresh(session).
TurnRefresh ==
    /\ turn.pc = "upd_refresh"
    /\ ~Deleted
    /\ turn' = [turn EXCEPT !.pc = turn.next, !.cache = db, !.target = IDLE,
                            !.error_message = None, !.next = "idle"]
    /\ UNCHANGED <<db, smvars, fn, reqs, pending, ahvars, turns, active, callback,
                   hooks, nhooks, fg, nfg>>

\* AgentRuntime.start_session / resume_session: connect and register the
\* client, or raise a connection error.
Connect ==
    /\ turn.pc = "connect"
    /\ \/ /\ active' = TRUE
          /\ turn' = [turn EXCEPT !.pc = "stream"]
       \/ /\ active' = active
          /\ turn' = [turn EXCEPT !.pc = "fail", !.error_message = ADAPTER_ERROR]
    /\ UNCHANGED <<db, smvars, fn, reqs, pending, ahvars, turns, callback, hooks,
                   nhooks, fg, nfg>>

\* _process_message_stream, lines 238-244: the init event of a started
\* session stores the external session id on the turn's object and commits.
StreamInit ==
    /\ turn.pc = "stream"
    /\ active
    /\ turn.kind = "start"
    /\ ~turn.init
    /\ ~Deleted
    /\ LET session == [turn.cache EXCEPT !.claude_session_id = "ext-1"]
       IN  /\ db' = Flush(db, turn.cache, session)
           /\ turn' = [turn EXCEPT !.cache = session, !.init = TRUE]
    /\ UNCHANGED <<smvars, fn, reqs, pending, ahvars, turns, active, callback,
                   hooks, nhooks, fg, nfg>>

\* _process_message_stream, lines 259-263: a result event arrives (the agent
\* emits it only when no tool call is waiting on a hook).
StreamResult ==
    /\ turn.pc = "stream"
    /\ active
    /\ HooksQuiet
    /\ \E success \in BOOLEAN, cost \in Costs :
       \E content \in IF success THEN {None} ELSE ResultTexts :
         turn' = [turn EXCEPT !.success = success, !.cost = cost,
                              !.content = content,
                              !.at_result = db.status,
                              !.result = IF success THEN "success"
                                         ELSE "failure",
                              !.pc = IF cost # 0 THEN "cost_commit"
                                     ELSE "result_status"]
    /\ UNCHANGED <<db, smvars, fn, reqs, pending, ahvars, turns, active, callback,
                   hooks, nhooks, fg, nfg>>

\* update_session_cost, lines 371-374.
CostCommit ==
    /\ turn.pc = "cost_commit"
    /\ ~Deleted
    /\ LET session == [turn.cache EXCEPT !.total_cost_usd = @ + turn.cost]
       IN  /\ db' = Flush(db, turn.cache, session)
           /\ turn' = [turn EXCEPT !.pc = "cost_refresh", !.cache = session]
    /\ UNCHANGED <<smvars, fn, reqs, pending, ahvars, turns, active, callback,
                   hooks, nhooks, fg, nfg>>

\* update_session_cost, line 375: db.refresh(session).
CostRefresh ==
    /\ turn.pc = "cost_refresh"
    /\ ~Deleted
    /\ turn' = [turn EXCEPT !.pc = "result_status", !.cache = db]
    /\ UNCHANGED <<db, smvars, fn, reqs, pending, ahvars, turns, active, callback,
                   hooks, nhooks, fg, nfg>>

\* _process_message_stream, lines 265-269: complete_session or fail_session.
ResultStatus ==
    /\ turn.pc = "result_status"
    /\ ~Deleted
    /\ LET t == [turn EXCEPT !.success = FALSE]
       IN  turn' = IF turn.success
                     THEN TurnUpdate(t, t.cache, COMPLETED, None, "ensure")
                     ELSE TurnUpdate(t, t.cache, ERROR,
                                     get_error_message(turn.content),
                                     "ensure")
    /\ UNCHANGED <<db, smvars, fn, reqs, pending, ahvars, turns, active, callback,
                   hooks, nhooks, fg, nfg>>

\* The stream ends without a result event (also after a disconnect).
StreamEnd ==
    /\ turn.pc = "stream"
    /\ turn' = [turn EXCEPT !.pc = "ensure"]
    /\ UNCHANGED <<db, smvars, fn, reqs, pending, ahvars, turns, active, callback,
                   hooks, nhooks, fg, nfg>>

\* The adapter raises while the stream is consumed.
StreamRaise ==
    /\ turn.pc = "stream"
    /\ turn' = [turn EXCEPT !.pc = "fail", !.error_message = ADAPTER_ERROR]
    /\ UNCHANGED <<db, smvars, fn, reqs, pending, ahvars, turns, active, callback,
                   hooks, nhooks, fg, nfg>>

\* _ensure_terminal_state: complete the session when the handle holds RUNNING.
EnsureTerminalState ==
    /\ turn.pc = "ensure"
    /\ ~Deleted
    /\ LET session == get_session(turn.cache, db)
       IN  turn' = IF session.status = RUNNING
                     THEN TurnUpdate(turn, session, COMPLETED, None, "finally")
                     ELSE [turn EXCEPT !.pc = "finally"]
    /\ UNCHANGED <<db, smvars, fn, reqs, pending, ahvars, turns, active, callback,
                   hooks, nhooks, fg, nfg>>

\* _safe_fail_session: fail_session, a SessionStateError swallowed.
SafeFailSession ==
    /\ turn.pc = "fail"
    /\ ~Deleted
    /\ LET session == get_session(turn.cache, db)
       IN  turn' = IF ERROR \in VALID_TRANSITIONS[session.status]
                     THEN [turn EXCEPT !.pc = "upd_commit", !.cache = session,
                                       !.target = ERROR, !.next = "finally"]
                     ELSE [turn EXCEPT !.pc = "finally", !.cache = session,
                                       !.error_message = None]
    /\ UNCHANGED <<db, smvars, fn, reqs, pending, ahvars, turns, active, callback,
                   hooks, nhooks, fg, nfg>>

\* The database calls of the turn that run inside _safe_fail_session.
InHandler(t) ==
    \/ t.pc = "fail"
    \/ t.pc \in {"upd_commit", "upd_refresh"} /\ t.target = ERROR
          /\ t.next = "finally"

\* A database call of the turn finds no row: get_session raises
\* SessionNotFoundError, a commit or refresh raises on the missing row. In
\* the try body the except clauses hand the error to _safe_fail_session;
\* inside _safe_fail_session only SessionStateError is caught, so the error
\* leaves start_session / resume_session after the finally block.
TurnNotFound ==
    /\ Deleted
    /\ \/ turn.pc \in {"to_running", "upd_commit", "upd_refresh",
                       "cost_commit", "cost_refresh", "result_status",
                       "ensure", "fail"}
       \/ turn.pc = "stream" /\ active /\ turn.kind = "start" /\ ~turn.init
    /\ turn' = IF InHandler(turn)
                THEN [turn EXCEPT !.pc = "finally", !.escaped = TRUE,
                                  !.target = IDLE, !.next = "idle"]
                ELSE [turn EXCEPT !.pc = "fail", !.target = IDLE,
                                  !.next = "idle",
                                  !.error_message = NOT_FOUND_ERROR]
    /\ UNCHANGED <<db, smvars, fn, reqs, pending, ahvars, turns, active, callback,
                   hooks, nhooks, fg, nfg>>

\* finally: AgentRuntime.disconnect_session, lines 342-345: pop the client;
\* client.disconnect() suspends when there was one.
TurnDisconnect ==
    /\ turn.pc = "finally"
    /\ active' = FALSE
    /\ IF active
         THEN /\ turn' = [turn EXCEPT !.pc = "finally_clear"]
              /\ UNCHANGED <<reqs, pending, callback>>
         ELSE LET r == ClearPending(reqs, pending, SID)
              IN  /\ reqs' = r.reqs
                  /\ pending' = r.pending
                  /\ callback' = FALSE
                  /\ turn' = NoTurn
    /\ UNCHANGED <<db, smvars, fn, ahvars, turns, hooks, nhooks, fg, nfg>>

\* A teardown that leaves the pending approval in place (mutant).
TurnCleanup_NoClear ==
    /\ turn.pc = "finally_clear"
    /\ callback' = FALSE
    /\ turn' = NoTurn
    /\ UNCHANGED <<db, smvars, fn, reqs, pending, ahvars, turns, active, hooks,
                   nhooks, fg, nfg>>

\* disconnect_session, lines 350-355, and remove_approval_callback.
TurnCleanup ==
    /\ turn.pc = "finally_clear"
    /\ LET r == ClearPending(reqs, pending, SID)
       IN  /\ reqs' = r.reqs
           /\ pending' = r.pending
    /\ callback' = FALSE
    /\ turn' = NoTurn
    /\ UNCHANGED <<db, smvars, fn, ahvars, turns, active, hooks, nhooks, fg, nfg>>

(***************************************************************************)
(* Spec: the approval hook of the agent runtime                            *)
(***************************************************************************)
\* What the agent's n-th tool invocation of a run may be: a read-only tool,
\* or a file write (odd n) or a shell command matching no safe pattern.
ToolCalls(n) ==
    { [tool_name |-> "Read", tool_use_id |-> "call-0"],
      IF n % 2 = 1 THEN [tool_name |-> "Write", tool_use_id |-> "call-1"]
                   ELSE [tool_name |-> "Bash", tool_use_id |-> "call-2"] }

AutoApproveTools == {"Read", "Glob", "Grep", "WebSearch", "WebFetch"}

\* ApprovalHandler.requires_approval under the default rules, for the tool
\* invocations of ToolCalls.
requires_approval(tool_name) == tool_name \notin AutoApproveTools

\* ApprovalHandler.to_pending_approval.
to_pending_approval(request) ==
    [tool_name |-> request.tool_name, tool_use_id |-> request.tool_use_id]

TIMEOUT_REASON == "Approval timed out after 300 seconds"

\* The lowest free hook slot.
FreeSlot(h) ==
    /\ hooks[h].pc \in {"idle", "done"}
    /\ \A g \in Hooks : g < h => hooks[g].pc \notin {"idle", "done"}

\* approval_hook, lines 516-552 up to the first suspension: the rule check,
\* queue_approval, the callback lookup and, in on_approval_required,
\* get_pending and to_pending_approval.
HookStart(h) ==
    /\ active
    /\ turn.pc = "stream"
    /\ nhooks < MaxHookCalls
    /\ FreeSlot(h)
    /\ nhooks' = nhooks + 1
    /\ \E tc \in ToolCalls(nhooks + 1) :
         IF ~requires_approval(tc.tool_name)
           THEN /\ hooks' = [hooks EXCEPT ![h] =
                                [NoHook EXCEPT !.pc = "done", !.ret = "allow",
                                               !.tool_name = tc.tool_name]]
                /\ UNCHANGED <<reqs, pending>>
           ELSE LET q == QueueApproval(reqs, pending, SID, tc.tool_name,
                                       tc.tool_use_id)
                    found == GetPending(q.pending, SID)
                IN  /\ reqs' = q.reqs
                    /\ pending' = q.pending
                    /\ hooks' = [hooks EXCEPT ![h] =
                         IF callback /\ found # 0
                           THEN [NoHook EXCEPT
                                   !.pc = "cb_read", !.req = q.ret,
                                   !.tool_name = tc.tool_name,
                                   !.cb = "invoked",
                                   !.data = to_pending_approval(q.reqs[found])]
                           ELSE [NoHook EXCEPT
                                   !.pc = "wait", !.req = q.ret,
                                   !.tool_name = tc.tool_name,
                                   !.cb = IF callback THEN "returned"
                                          ELSE "none"]]
    /\ UNCHANGED <<db, smvars, fn, ahvars, turn, turns, active, callback, fg, nfg>>

\* A callback whose failure ends the hook with a denial (mutant).
CallbackRead_AbortOnError(h) ==
    /\ hooks[h].pc = "cb_read"
    /\ LET session == get_session(NotLoaded, db)
       IN  hooks' = [hooks EXCEPT ![h] =
                       IF CanSetPendingApproval(session)
                         THEN [@ EXCEPT !.pc = "cb_commit", !.row = session]
                         ELSE [@ EXCEPT !.pc = "done", !.cb = "failed",
                                        !.ret = "deny", !.data = NoPayload]]
    /\ UNCHANGED <<db, smvars, fn, reqs, pending, ahvars, turn, turns, active,
                   callback, nhooks, fg, nfg>>

\* on_approval_required -> set_pending_approval, lines 254-260, on a handle
\* of its own: the read and the RUNNING precondition. The SessionStateError
\* is caught and logged by the callback; the hook goes on to wait.
CallbackRead(h) ==
    /\ hooks[h].pc = "cb_read"
    /\ LET session == get_session(NotLoaded, db)
       IN  hooks' = [hooks EXCEPT ![h] =
                       IF CanSetPendingApproval(session)
                         THEN [@ EXCEPT !.pc = "cb_commit", !.row = session]
                         ELSE [@ EXCEPT !.pc = "wait", !.cb = "failed",
                                        !.data = NoPayload]]
    /\ UNCHANGED <<db, smvars, fn, reqs, pending, ahvars, turn, turns, active,
                   callback, nhooks, fg, nfg>>

\* set_pending_approval, lines 262-265: payload and status in one commit;
\* on a deleted row the commit raises and the callback logs the error.
CallbackCommit(h) ==
    /\ hooks[h].pc = "cb_commit"
    /\ db' = IF Deleted THEN db
             ELSE Flush(db, hooks[h].row,
                        ApplyPendingApproval(hooks[h].row, hooks[h].data))
    /\ hooks' = [hooks EXCEPT ![h] =
                   [@ EXCEPT !.pc = "wait",
                             !.cb = IF Deleted THEN "failed" ELSE "stored",
                             !.row = NotLoaded, !.data = NoPayload]]
    /\ UNCHANGED <<smvars, fn, reqs, pending, ahvars, turn, turns, active,
                   callback, nhooks, fg, nfg>>

\* approval_hook, lines 580-600: the gate is open; allow or deny.
HookDecided(h) ==
    /\ hooks[h].pc = "wait"
    /\ reqs[hooks[h].req].event
    /\ LET request == reqs[hooks[h].req]
       IN  hooks' = [hooks EXCEPT ![h] =
             [@ EXCEPT !.pc = "done", !.ret = HookResult(request).ret,
                       !.reason = HookResult(request).reason]]
    /\ UNCHANGED <<db, smvars, fn, reqs, pending, ahvars, turn, turns, active,
                   callback, nhooks, fg, nfg>>

\* A timeout that denies without calling clear_pending (mutant).
HookTimeout_NoClear(h) ==
    /\ hooks[h].pc = "wait"
    /\ APPROVAL_TIMEOUT_SECONDS > 0
    /\ ~reqs[hooks[h].req].event
    /\ hooks' = [hooks EXCEPT ![h] =
                   [@ EXCEPT !.pc = "done", !.ret = "deny",
                             !.reason = TIMEOUT_REASON]]
    /\ UNCHANGED <<db, smvars, fn, reqs, pending, ahvars, turn, turns, active,
                   callback, nhooks, fg, nfg>>

\* approval_hook, lines 563-578: the wait timed out; clear_pending and deny.
HookTimeout(h) ==
    /\ hooks[h].pc = "wait"
    /\ APPROVAL_TIMEOUT_SECONDS > 0
    /\ ~reqs[hooks[h].req].event
    /\ LET r == ClearPending(reqs, pending, SID)
       IN  /\ reqs' = r.reqs
           /\ pending' = r.pending
    /\ hooks' = [hooks EXCEPT ![h] =
                   [@ EXCEPT !.pc = "done", !.ret = "deny",
                             !.reason = TIMEOUT_REASON]]
    /\ UNCHANGED <<db, smvars, fn, ahvars, turn, turns, active, callback, nhooks,
                   fg, nfg>>

(***************************************************************************)
(* Spec: foreground requests                                               *)
(***************************************************************************)
\* The feedback texts the client sends with a decision.
ApproveFeedbacks == {"looks good"}
DenyFeedbacks == {None}

\* approve_tool_use, deny_tool_use, cancel_session or delete_session is
\* called.
RequestStart ==
    /\ fg.pc \in {"idle", "done"}
    /\ nfg < MaxRequests
    /\ nfg' = nfg + 1
    /\ \/ \E f \in ApproveFeedbacks :
            fg' = [NoRequest EXCEPT !.kind = "approve", !.pc = "read",
                                    !.approved = "True", !.feedback = f]
       \/ \E f \in DenyFeedbacks :
            fg' = [NoRequest EXCEPT !.kind = "deny", !.pc = "read",
                                    !.approved = "False",
                                    !.feedback = DenyFeedback(f)]
       \/ fg' = [NoRequest EXCEPT !.kind = "cancel", !.pc = "read"]
       \/ fg' = [NoRequest EXCEPT !.kind = "delete", !.pc = "read"]
    /\ UNCHANGED <<db, smvars, fn, reqs, pending, ahvars, turn, turns, active,
                   callback, hooks, nhooks>>

\* A decision handler without the WAITING_APPROVAL precondition (mutant).
DecisionRead_NoCheck ==
    /\ fg.pc = "read"
    /\ fg.kind \in {"approve", "deny"}
    /\ LET session == get_session(NotLoaded, db)
       IN  fg' = IF RUNNING \in VALID_TRANSITIONS[session.status]
                   THEN [fg EXCEPT !.pc = "commit", !.row = session,
                                   !.shown =
                                       session.pending_approval.tool_use_id]
                   ELSE [fg EXCEPT !.pc = "done", !.ret = "state_error",
                                   !.approved = None, !.feedback = None]
    /\ UNCHANGED <<db, smvars, fn, reqs, pending, ahvars, turn, turns, active,
                   callback, hooks, nhooks, nfg>>

\* _process_approval_decision, lines 396-402, and the check of
\* update_session_status on the request's handle.
DecisionRead ==
    /\ fg.pc = "read"
    /\ fg.kind \in {"approve", "deny"}
    /\ LET session == get_session(NotLoaded, db)
       IN  fg' = IF session.status # WAITING_APPROVAL
                   THEN [fg EXCEPT !.pc = "done", !.ret = "not_waiting",
                                   !.approved = None, !.feedback = None]
                   ELSE IF RUNNING \in VALID_TRANSITIONS[session.status]
                          THEN [fg EXCEPT !.pc = "commit", !.row = session,
                                          !.shown = session.pending_approval
                                                           .tool_use_id]
                          ELSE [fg EXCEPT !.pc = "done", !.ret = "state_error",
                                          !.approved = None, !.feedback = None]
    /\ UNCHANGED <<db, smvars, fn, reqs, pending, ahvars, turn, turns, active,
                   callback, hooks, nhooks, nfg>>

\* _process_approval_decision, line 407: the RUNNING transition is committed.
DecisionCommit ==
    /\ fg.pc = "commit"
    /\ fg.kind \in {"approve", "deny"}
    /\ db' = Flush(db, fg.row, ApplyTransition(fg.row, RUNNING, None, None))
    /\ fg' = [fg EXCEPT !.pc = "signal", !.row = NotLoaded]
    /\ UNCHANGED <<smvars, fn, reqs, pending, ahvars, turn, turns, active,
                   callback, hooks, nhooks, nfg>>

\* _process_approval_decision, lines 410-423: process_decision.
DecisionSignal ==
    /\ fg.pc = "signal"
    /\ LET r == ProcessDecision(reqs, pending, SID, fg.approved, fg.feedback)
       IN  /\ reqs' = r.reqs
           /\ pending' = r.pending
           /\ fg' = [fg EXCEPT !.pc = "done", !.approved = None,
                               !.feedback = None, !.shown = None,
                               !.ret = IF ~r.ret THEN "no_pending"
                                       ELSE IF fg.kind = "approve"
                                              THEN "resumed" ELSE "denied"]
    /\ UNCHANGED <<db, smvars, fn, ahvars, turn, turns, active, callback, hooks,
                   nhooks, nfg>>

\* cancel_session, lines 523-526.
CancelRead ==
    /\ fg.pc = "read"
    /\ fg.kind = "cancel"
    /\ LET session == get_session(NotLoaded, db)
       IN  fg' = IF session.status \in {COMPLETED, ERROR}
                   THEN [fg EXCEPT !.pc = "done", !.ret = "already_terminal"]
                   ELSE [fg EXCEPT !.pc = "clear", !.row = session]
    /\ UNCHANGED <<db, smvars, fn, reqs, pending, ahvars, turn, turns, active,
                   callback, hooks, nhooks, nfg>>

\* fail_session on the request's handle up to its commit; a SessionStateError
\* is swallowed by cancel_session.
CancelFail(request) ==
    IF ERROR \in VALID_TRANSITIONS[request.row.status]
      THEN [request EXCEPT !.pc = "commit"]
      ELSE [request EXCEPT !.pc = "done", !.ret = "cancelled", !.row = NotLoaded]

\* A cancel that disconnects without clearing the pending approval (mutant).
CancelClear_NoClear ==
    /\ fg.pc = "clear"
    /\ active' = FALSE
    /\ fg' = IF active THEN [fg EXCEPT !.pc = "disconnect"] ELSE CancelFail(fg)
    /\ UNCHANGED <<db, smvars, fn, reqs, pending, ahvars, turn, turns, callback,
                   hooks, nhooks, nfg>>

\* cancel_session, lines 529-533: clear_pending, then pop the client when the
\* session is active (client.disconnect() suspends).
CancelClear ==
    /\ fg.pc = "clear"
    /\ LET r == ClearPending(reqs, pending, SID)
       IN  /\ reqs' = r.reqs
           /\ pending' = r.pending
    /\ active' = FALSE
    /\ fg' = IF active THEN [fg EXCEPT !.pc = "disconnect"] ELSE CancelFail(fg)
    /\ UNCHANGED <<db, smvars, fn, ahvars, turn, turns, callback, hooks, nhooks,
                   nfg>>

\* disconnect_session, lines 350-355, called by cancel_session.
CancelDisconnect ==
    /\ fg.pc = "disconnect"
    /\ LET r == ClearPending(reqs, pending, SID)
       IN  /\ reqs' = r.reqs
           /\ pending' = r.pending
    /\ callback' = FALSE
    /\ fg' = CancelFail(fg)
    /\ UNCHANGED <<db, smvars, fn, ahvars, turn, turns, active, hooks, nhooks, nfg>>

\* cancel_session, line 537: fail_session commits ERROR.
CancelCommit ==
    /\ fg.pc = "commit"
    /\ fg.kind = "cancel"
    /\ db' = Flush(db, fg.row, ApplyTransition(fg.row, ERROR, CANCEL_ERROR, None))
    /\ fg' = [fg EXCEPT !.pc = "done", !.ret = "cancelled", !.row = NotLoaded]
    /\ UNCHANGED <<smvars, fn, reqs, pending, ahvars, turn, turns, active,
                   callback, hooks, nhooks, nfg>>

\* delete_session, lines 320-321: pop the client when the session is active
\* (client.disconnect() suspends).
DeleteCheck ==
    /\ fg.pc = "read"
    /\ fg.kind = "delete"
    /\ active' = FALSE
    /\ fg' = [fg EXCEPT !.pc = IF active THEN "del_disconnect"
                                ELSE "del_read"]
    /\ UNCHANGED <<db, smvars, fn, reqs, pending, ahvars, turn, turns, callback,
                   hooks, nhooks, nfg>>

\* disconnect_session, lines 350-355, called by delete_session.
DeleteDisconnect ==
    /\ fg.pc = "del_disconnect"
    /\ LET r == ClearPending(reqs, pending, SID)
       IN  /\ reqs' = r.reqs
           /\ pending' = r.pending
    /\ callback' = FALSE
    /\ fg' = [fg EXCEPT !.pc = "del_read"]
    /\ UNCHANGED <<db, smvars, fn, ahvars, turn, turns, active, hooks, nhooks, nfg>>

\* SessionManager.delete_session, line 522: get_session.
DeleteRead ==
    /\ fg.pc = "del_read"
    /\ fg' = IF Deleted THEN [fg EXCEPT !.pc = "done", !.ret = "not_found"]
             ELSE [fg EXCEPT !.pc = "del_commit"]
    /\ UNCHANGED <<db, smvars, fn, reqs, pending, ahvars, turn, turns, active,
                   callback, hooks, nhooks, nfg>>

\* SessionManager.delete_session, lines 525-531: the row is deleted.
DeleteCommit ==
    /\ fg.pc = "del_commit"
    /\ db' = DeletedRow
    /\ fg' = [fg EXCEPT !.pc = "done", !.ret = "deleted"]
    /\ UNCHANGED <<smvars, fn, reqs, pending, ahvars, turn, turns, active,
                   callback, hooks, nhooks, nfg>>

(***************************************************************************)
(* Spec                                                                    *)
(***************************************************************************)
Init ==
    /\ db = NewSession
    /\ tcache = NotLoaded
    /\ call = NoCall
    /\ reqs = << >>
    /\ pending = [s \in Sessions |-> 0]
    /\ ahcall = NoAHCall
    /\ turn = NoTurn
    /\ turns = 0
    /\ active = FALSE
    /\ callback = FALSE
    /\ hooks = [h \in Hooks |-> NoHook]
    /\ nhooks = 0
    /\ fg = NoRequest
    /\ nfg = 0
    /\ fn = NoFn

Next ==
    \/ TurnStart
    \/ TransitionToRunning
    \/ TurnCommit
    \/ TurnRefresh
    \/ Connect
    \/ StreamInit
    \/ StreamResult
    \/ CostCommit
    \/ CostRefresh
    \/ ResultStatus
    \/ StreamEnd
    \/ StreamRaise
    \/ EnsureTerminalState
    \/ SafeFailSession
    \/ TurnNotFound
    \/ TurnDisconnect
    \/ TurnCleanup
    \/ \E h \in Hooks : HookStart(h)
    \/ \E h \in Hooks : CallbackRead(h)
    \/ \E h \in Hooks : CallbackCommit(h)
    \/ \E h \in Hooks : HookDecided(h)
    \/ \E h \in Hooks : HookTimeout(h)
    \/ RequestStart
    \/ DecisionRead
    \/ DecisionCommit
    \/ DecisionSignal
    \/ CancelRead
    \/ CancelClear
    \/ CancelDisconnect
    \/ CancelCommit
    \/ DeleteCheck
    \/ DeleteDisconnect
    \/ DeleteRead
    \/ DeleteCommit

Spec == Init /\ [][Next]_vars

\* The event loop resumes every coroutine that is ready: a hook's wait ends
\* when its gate is open or its wait_for timer fires.
Fairness ==
    \A h \in Hooks : /\ WF_vars(CallbackRead(h))
                     /\ WF_vars(CallbackCommit(h))
                     /\ WF_vars(HookDecided(h))
                     /\ WF_vars(HookTimeout(h))

FairSpec == Init /\ [][Next]_vars /\ Fairness

(***************************************************************************)
(* Claims settled under SpecSM                                             *)
(***************************************************************************)
\* The transition table as section 4.1 of the specification states it.
TransitionTable == { <<IDLE, RUNNING>>, <<RUNNING, WAITING_APPROVAL>>,
                     <<RUNNING, COMPLETED>>, <<RUNNING, ERROR>>,
                     <<WAITING_APPROVAL, RUNNING>>, <<COMPLETED, RUNNING>>,
                     <<ERROR, RUNNING>> }

StatusCalls == {"update_session_status", "complete_session", "fail_session"}

\* C1: a status update whose (stored status, requested status) pair is not in
\* the transition table, self-transitions included, raises SessionStateError
\* and leaves the stored row (status, error_message, pending_approval,
\* claude_session_id) exactly as it was before the call.
C1_InvalidTransitionRejected ==
    (call.op \in StatusCalls
        /\ <<call.before.status, call.new_status>> \notin TransitionTable)
    => (call.raised = "SessionStateError" /\ db = call.before)

C1_Witness ==
    /\ call.op = "update_session_status"
    /\ call.before.status = COMPLETED
    /\ call.new_status = ERROR
    /\ call.raised = "SessionStateError"
    /\ db.status = COMPLETED

\* C2: in every reachable state pending_approval is non-null exactly when
\* the status is WAITING_APPROVAL.
C2_PendingIffWaiting ==
    (db.pending_approval # NoPayload) <=> (db.status = WAITING_APPROVAL)

\* C6: set_pending_approval outside RUNNING raises SessionStateError and
\* leaves status and pending_approval unchanged; in RUNNING it stores the
\* supplied payload and WAITING_APPROVAL together.
C6_SetPendingApprovalGuard ==
    call.op = "set_pending_approval" =>
        IF call.before.status # RUNNING
          THEN /\ call.raised = "SessionStateError"
               /\ db.status = call.before.status
               /\ db.pending_approval = call.before.pending_approval
          ELSE /\ call.raised = None
               /\ db.status = WAITING_APPROVAL
               /\ db.pending_approval = call.arg

C6_Witness ==
    /\ call.op = "set_pending_approval"
    /\ call.before.status = IDLE
    /\ call.raised = "SessionStateError"
    /\ db = NewSession

(***************************************************************************)
(* Claims settled under SpecAH                                             *)
(***************************************************************************)
\* C5: a process_decision(s, d, f) that finds a pending request records d
\* and f on it, opens its gate, returns true and leaves nothing pending for
\* s; a process_decision that finds nothing pending (any further one after
\* the first) returns false and changes no request: decision, feedback and
\* gate of the resolved request stay as they are.
C5_DecisionExactlyOnce ==
    [][ (ahcall'.seq # ahcall.seq /\ ahcall'.op = "process_decision") =>
          LET s == ahcall'.session_id
              r == pending[s]
          IN  IF r # 0
                THEN /\ reqs'[r].event
                     /\ reqs'[r].approved = ahcall'.approved
                     /\ reqs'[r].feedback = ahcall'.feedback
                     /\ ahcall'.ret = 1
                     /\ GetPending(pending', s) = 0
                     /\ \A q \in DOMAIN reqs : q # r => reqs'[q] = reqs[q]
                ELSE /\ ahcall'.ret = 0
                     /\ reqs' = reqs
                     /\ pending' = pending ]_vars

\* A second decision for a session whose request was already resolved.
C5_Witness ==
    /\ ahcall.op = "process_decision"
    /\ ahcall.ret = 0
    /\ ahcall.approved = "False"
    /\ \E r \in DOMAIN reqs :
           /\ reqs[r].session_id = ahcall.session_id
           /\ reqs[r].event
           /\ reqs[r].approved = "True"
           /\ reqs[r].feedback = "looks good"

\* C7: clear_pending(s) with a pending request records the denial with the
\* synthetic feedback, opens the gate and removes the request from the map;
\* with nothing pending it changes nothing.
C7_ClearPendingSignals ==
    [][ (ahcall'.seq # ahcall.seq /\ ahcall'.op = "clear_pending") =>
          LET s == ahcall'.session_id
              r == pending[s]
          IN  IF r # 0
                THEN /\ reqs'[r].event
                     /\ reqs'[r].approved = "False"
                     /\ reqs'[r].feedback = CLEARED_FEEDBACK
                     /\ GetPending(pending', s) = 0
                     /\ \A q \in DOMAIN reqs : q # r => reqs'[q] = reqs[q]
                     /\ \A t \in Sessions : t # s => pending'[t] = pending[t]
                ELSE /\ reqs' = reqs
                     /\ pending' = pending ]_vars

C7_Witness ==
    /\ ahcall.op = "clear_pending"
    /\ pending[ahcall.session_id] = 0
    /\ \E r \in DOMAIN reqs :
           /\ reqs[r].session_id = ahcall.session_id
           /\ reqs[r].event
           /\ reqs[r].feedback = CLEARED_FEEDBACK

\* C8: the pending map holds one entry per session: after
\* queue_approval(s, ...) get_pending(s) is the request just built (the one
\* returned), whatever was pending for s before; the requests built earlier
\* and the entries of the other sessions are left as they were.
C8_QueueReplaces ==
    [][ (ahcall'.seq # ahcall.seq /\ ahcall'.op = "queue_approval") =>
          LET s == ahcall'.session_id
          IN  /\ Len(reqs') = Len(reqs) + 1
              /\ GetPending(pending', s) = Len(reqs')
              /\ ahcall'.ret = Len(reqs')
              /\ reqs'[Len(reqs')].session_id = s
              /\ \A q \in DOMAIN reqs : reqs'[q] = reqs[q]
              /\ \A t \in Sessions : t # s => pending'[t] = pending[t] ]_vars

\* A request queued over one that was still pending.
C8_Witness ==
    /\ ahcall.op = "queue_approval"
    /\ \E r \in DOMAIN reqs :
           /\ r < ahcall.ret
           /\ reqs[r].session_id = ahcall.session_id
           /\ ~reqs[r].event
           /\ pending[ahcall.session_id] = ahcall.ret

(***************************************************************************)
(* Claims settled under Spec and FairSpec                                  *)
(***************************************************************************)
\* C3: the session starts in IDLE and every change of the persisted status
\* is a pair of the transition table, whatever the interleaving of the
\* background turn with approve, deny and cancel requests (the deletion of
\* the row is not a change of status).
C3_PersistedTransitionsInTable ==
    /\ db.status = IDLE
    /\ [][ (db'.status # db.status /\ db'.status # DELETED) =>
             <<db.status, db'.status>> \in TransitionTable ]_vars

\* A request was resolved by approve / deny (not by clear_pending).
Decided(r) == reqs[r].event /\ reqs[r].feedback # CLEARED_FEEDBACK

\* C4: a hook unblocked by the gate of a request that approve / deny resolved
\* finds, on reading the session at that moment, a status other than
\* WAITING_APPROVAL (the RUNNING write preceded the signal).
C4_UnblockedNeverSeesWaiting ==
    [][ \A h \in Hooks :
          (hooks[h].pc = "wait" /\ hooks'[h].pc = "done"
              /\ Decided(hooks[h].req))
          => get_session(NotLoaded, db).status # WAITING_APPROVAL ]_vars

\* A request replaced in the pending map before it was resolved.
Orphaned(r) ==
    /\ ~reqs[r].event
    /\ pending[reqs[r].session_id] # r

\* C9: the gate of a request replaced while pending is never opened; the hook
\* waiting on it returns only through its timeout, with the timeout's
\* denial, and it does return.
C9_ReplacedRequestTimesOut ==
    /\ [][ \A r \in DOMAIN reqs : Orphaned(r) => ~reqs'[r].event ]_vars
    /\ [][ \A h \in Hooks :
             (hooks[h].pc = "wait" /\ Orphaned(hooks[h].req)
                 /\ hooks'[h].pc # "wait")
             => /\ hooks'[h].pc = "done"
                /\ hooks'[h].ret = "deny"
                /\ hooks'[h].reason = TIMEOUT_REASON ]_vars
    /\ \A h \in Hooks :
          (hooks[h].pc = "wait" /\ Orphaned(hooks[h].req))
              ~> (hooks[h].pc = "done" /\ hooks[h].reason = TIMEOUT_REASON)

\* A hook that timed out on a request replaced by a later one.
C9_Witness ==
    \E h \in Hooks :
        /\ hooks[h].pc = "done"
        /\ hooks[h].reason = TIMEOUT_REASON
        /\ hooks[h].req # 0
        /\ hooks[h].req < Len(reqs)
        /\ ~reqs[hooks[h].req].event

\* C10: a hook called for a tool that needs no approval returns allow in the
\* step of the call, with no request queued, no callback invoked and no wait;
\* one called for a tool that needs approval has queued its request before
\* the callback runs, goes on to wait whether the callback stored the payload
\* or failed, and returns only from the wait, with the gate open or with the
\* timeout's denial.
C10_HookOrder ==
    /\ [][ \A h \in Hooks :
             (nhooks' = nhooks + 1 /\ hooks'[h] # hooks[h]) =>
               IF ~requires_approval(hooks'[h].tool_name)
                 THEN /\ hooks'[h].pc = "done"
                      /\ hooks'[h].ret = "allow"
                      /\ hooks'[h].req = 0
                      /\ hooks'[h].cb = "none"
                      /\ reqs' = reqs
                      /\ pending' = pending
                 ELSE /\ Len(reqs') = Len(reqs) + 1
                      /\ hooks'[h].req = Len(reqs')
                      /\ pending'[SID] = hooks'[h].req
                      /\ hooks'[h].ret = None
                      /\ IF callback
                           THEN hooks'[h].pc = "cb_read"
                                /\ hooks'[h].cb = "invoked"
                           ELSE hooks'[h].pc = "wait"
                                /\ hooks'[h].cb = "none" ]_vars
    /\ [][ \A h \in Hooks :
             (hooks[h].pc \in {"cb_read", "cb_commit"}
                 /\ hooks'[h].pc \notin {"cb_read", "cb_commit"})
             => /\ hooks'[h].pc = "wait"
                /\ hooks'[h].cb \in {"stored", "failed"}
                /\ hooks'[h].ret = None ]_vars
    /\ [][ \A h \in Hooks :
             (hooks[h].pc # "done" /\ hooks'[h].pc = "done"
                 /\ hooks'[h].req # 0)
             => /\ hooks[h].pc = "wait"
                /\ \/ reqs[hooks[h].req].event
                   \/ hooks'[h].reason = TIMEOUT_REASON ]_vars

\* A hook whose callback failed and that was then allowed by a decision.
C10_Witness ==
    \E h \in Hooks :
        /\ hooks[h].pc = "done"
        /\ hooks[h].cb = "failed"
        /\ hooks[h].ret = "allow"
        /\ reqs[hooks[h].req].event

\* C11: a hook whose wait ends with the gate still closed (the timeout)
\* returns deny with the timeout's reason, and from then on the request it
\* queued is not the session's pending request.
C11_TimeoutDeniesAndClears ==
    /\ [][ \A h \in Hooks :
             (hooks[h].pc = "wait" /\ hooks'[h].pc # "wait"
                 /\ ~reqs[hooks[h].req].event)
             => /\ hooks'[h].pc = "done"
                /\ hooks'[h].ret = "deny"
                /\ hooks'[h].reason = TIMEOUT_REASON
                /\ GetPending(pending', SID) # hooks[h].req ]_vars
    /\ [](\A h \in Hooks :
             (hooks[h].pc = "done" /\ hooks[h].reason = TIMEOUT_REASON)
             => GetPending(pending, SID) # hooks[h].req)

\* A hook that timed out on the request that was pending for the session.
C11_Witness ==
    \E h \in Hooks :
        /\ hooks[h].pc = "done"
        /\ hooks[h].ret = "deny"
        /\ hooks[h].reason = TIMEOUT_REASON
        /\ reqs[hooks[h].req].feedback = CLEARED_FEEDBACK
        /\ pending[SID] = 0

\* A hook of the turn timed out and nothing but the turn and its hooks
\* touched the session: no approve, deny or cancel request was made.
OnlyTimeouts ==
    /\ nfg = 0
    /\ \E h \in Hooks : hooks[h].pc = "done" /\ hooks[h].reason = TIMEOUT_REASON
    /\ \A h \in Hooks : hooks[h].pc \in {"idle", "done"}

\* C12: a turn in which an approval timed out and whose stream then delivered
\* a successful result has, once its status handling is over, stored
\* COMPLETED with no error_message: the session is neither left in
\* WAITING_APPROVAL nor moved to ERROR.
C12_TimeoutThenSuccessCompletes ==
    (turn.pc = "finally" /\ turn.result = "success" /\ OnlyTimeouts)
    => (db.status = COMPLETED /\ db.error_message = None)

(***************************************************************************)
(* Claims settled under SpecAH (hook result)                               *)
(***************************************************************************)
\* C13: a hook whose gate was opened returns allow when the request is
\* approved; otherwise deny, the reason being the recorded feedback, or
\* "User denied <tool> execution" when the feedback is empty or absent. The
\* deny entry point records "User denied tool execution" when the caller
\* gives no feedback, and the caller's text otherwise.
C13_DecisionToPermission ==
    /\ [](ahcall.op = "hook_result" =>
            LET q == reqs[ahcall.ret]
            IN  IF q.approved = "True"
                  THEN ahcall.decision = "allow"
                  ELSE /\ ahcall.decision = "deny"
                       /\ ahcall.reason =
                            IF q.feedback \in {None, ""}
                              THEN IF q.tool_name = "Write"
                                     THEN "User denied Write execution"
                                     ELSE "User denied Bash execution"
                              ELSE q.feedback)
    /\ [][ (ahcall'.seq # ahcall.seq /\ ahcall'.op = "deny_tool_use"
               /\ pending[ahcall'.session_id] # 0)
           => LET q == reqs'[pending[ahcall'.session_id]]
              IN  /\ q.event
                  /\ q.approved = "False"
                  /\ q.feedback = IF ahcall'.feedback \in {None, ""}
                                    THEN "User denied tool execution"
                                    ELSE ahcall'.feedback ]_vars

\* A hook denied by a decision recorded with an empty feedback.
C13_Witness ==
    /\ ahcall.op = "hook_result"
    /\ ahcall.decision = "deny"
    /\ reqs[ahcall.ret].feedback = ""
    /\ reqs[ahcall.ret].tool_name = "Write"
    /\ ahcall.reason = "User denied Write execution"

(***************************************************************************)
(* Claims settled under Spec: decisions, cancel, results                   *)
(***************************************************************************)
\* C14: an approve or deny request that reads a stored status other than
\* WAITING_APPROVAL ends there with the client error, and changes neither the
\* stored row nor any request, gate or entry of the pending map.
C14_DecisionNeedsWaiting ==
    [][ (fg.pc = "read" /\ fg.kind \in {"approve", "deny"}
            /\ fg' # fg /\ db.status # WAITING_APPROVAL)
        => /\ fg'.pc = "done"
           /\ fg'.ret = "not_waiting"
           /\ db' = db
           /\ reqs' = reqs
           /\ pending' = pending ]_vars

\* An approve rejected in RUNNING while a request was pending.
C14_Witness ==
    /\ fg.kind = "approve"
    /\ fg.pc = "done"
    /\ fg.ret = "not_waiting"
    /\ db.status = RUNNING
    /\ pending[SID] # 0
    /\ ~reqs[pending[SID]].event

\* The steps of a cancel request, by the position it leaves.
CancelStep(pc) == fg.kind = "cancel" /\ fg.pc = pc /\ fg' # fg

\* C15 (order): a cancel that reads a status other than COMPLETED and ERROR
\* first clears the pending approval, with the stored row untouched, then
\* disconnects the adapter connection, and writes ERROR last.
C15_Order ==
    /\ (CancelStep("read") /\ db.status \notin {COMPLETED, ERROR})
         => (fg'.pc = "clear" /\ db' = db /\ reqs' = reqs
                /\ pending' = pending /\ active' = active)
    /\ CancelStep("clear")
         => /\ GetPending(pending', SID) = 0
            /\ ~active'
            /\ db' = db
            /\ fg'.pc = IF active THEN "disconnect"
                        ELSE IF fg.row.status = RUNNING THEN "commit"
                        ELSE "done"
    /\ CancelStep("disconnect")
         => /\ db' = db
            /\ ~active'
            /\ GetPending(pending', SID) = 0
            /\ fg'.pc = IF fg.row.status = RUNNING THEN "commit" ELSE "done"
    /\ CancelStep("commit")
         => (db'.status = ERROR /\ db'.error_message = CANCEL_ERROR
                /\ fg'.pc = "done" /\ fg'.ret = "cancelled")

\* The clear step of cancel opens, with the synthetic denial, the gate of
\* every hook that is blocked.
ClearUnblocksEvery ==
    CancelStep("clear") =>
        \A h \in Hooks :
            hooks[h].pc = "wait" =>
                (reqs'[hooks[h].req].event
                    /\ reqs'[hooks[h].req].approved = "False")

\* The clear step of cancel opens, with the synthetic denial, the gate of
\* the hook that is blocked on the session's pending request.
ClearUnblocksPending ==
    CancelStep("clear") =>
        \A h \in Hooks :
            (hooks[h].pc = "wait" /\ GetPending(pending, SID) = hooks[h].req)
            => (reqs'[hooks[h].req].event
                  /\ reqs'[hooks[h].req].approved = "False"
                  /\ reqs'[hooks[h].req].feedback = CLEARED_FEEDBACK)

C16_CancelledMeansTerminal ==
    [][ (fg.kind = "cancel" /\ fg.pc # "done" /\ fg'.pc = "done"
            /\ fg'.ret = "cancelled")
        => (db'.status \in {ERROR, COMPLETED}
              /\ GetPending(pending', SID) = 0
              /\ ~active') ]_vars

\* The steps of the result handling of _process_message_stream.
CostAdded ==
    (turn.pc = "cost_commit" /\ turn'.pc = "cost_refresh")
        => db'.total_cost_usd = db.total_cost_usd + turn.cost

ResultDecided ==
    (turn.pc = "result_status" /\ turn'.pc # "result_status"
        /\ turn.cache.status = RUNNING /\ ~Deleted)
        => (turn'.pc = "upd_commit"
              /\ turn'.next = "ensure"
              /\ (turn.result = "success"
                    => (turn'.target = COMPLETED
                          /\ turn'.error_message = None))
              /\ (turn.result = "failure"
                    => (turn'.target = ERROR
                          /\ turn'.error_message =
                                IF turn.content = None THEN RESULT_ERROR
                                ELSE turn.content)))

ResultPersisted ==
    (turn.pc = "upd_commit" /\ turn.next = "ensure"
        /\ turn'.pc = "upd_refresh" /\ db.status = RUNNING)
        => (db'.status = turn.target
              /\ db'.error_message = turn.error_message
              /\ turn.target = (IF turn.result = "success" THEN COMPLETED
                                ELSE ERROR))

ResultHandled ==
    (turn.pc = "ensure" /\ turn.result # "none" /\ turn.at_result = RUNNING
        /\ fg.kind \notin {"cancel", "delete"})
        => (db.total_cost_usd = turn.cost
              /\ (turn.result = "success"
                    => (db.status = COMPLETED /\ db.error_message = None))
              /\ (turn.result = "failure"
                    => (db.status = ERROR
                          /\ db.error_message =
                                IF turn.content = None THEN RESULT_ERROR
                                ELSE turn.content)))

EnsureCompletesRunning ==
    (turn.pc = "ensure" /\ turn.result = "none" /\ turn'.pc # "ensure"
        /\ db.status = RUNNING)
        => (turn'.pc = "upd_commit" /\ turn'.target = COMPLETED)

EnsureLeavesOthers ==
    (turn.pc = "ensure" /\ turn.result = "none" /\ turn'.pc # "ensure"
        /\ db.status \in SessionStatus \ {RUNNING})
        => turn'.pc = "finally"

\* C18: when the stream of a turn ends without a result event and the stored
\* status is RUNNING, the orchestrator transitions the session to COMPLETED;
\* with any other stored status it leaves the status as it is.
C18_EnsureTerminalState ==
    [][ (EnsureCompletesRunning) /\ (EnsureLeavesOthers) ]_vars

\* The adapter raised and _safe_fail_session acts.
AdapterRaised == turn.pc = "fail" /\ turn.error_message = ADAPTER_ERROR

FailStoresError ==
    /\ (AdapterRaised /\ turn'.pc # "fail" /\ db.status = RUNNING)
          => (turn'.pc = "upd_commit" /\ turn'.target = ERROR
                /\ turn'.error_message = ADAPTER_ERROR)
    /\ (turn.pc = "upd_commit" /\ turn.target = ERROR
          /\ turn.next = "finally" /\ turn'.pc = "upd_refresh")
          => (db'.status = ERROR /\ db'.error_message = turn.error_message)

FailSwallowed ==
    (AdapterRaised /\ turn'.pc # "fail" /\ db.status \in {COMPLETED, ERROR})
        => turn'.pc = "finally"

\* C19: when the adapter raises during a turn and the stored status is
\* RUNNING, the record becomes ERROR with the exception text; when the stored
\* status is already COMPLETED or ERROR the state error is swallowed and no
\* write to the record follows.
C19_AdapterRaise ==
    [][ (FailStoresError) /\ (FailSwallowed) ]_vars

\* C20: no exception leaves start_session or resume_session, whatever fails
\* during the turn, a deleted session and a status changed by another path
\* included.
C20_NeverPropagates == ~turn.escaped

\* Nothing of the runtime is left for the session.
TornDown(a, c, p) == ~a /\ ~c /\ GetPending(p, SID) = 0

\* C21: when start_session / resume_session ends, on every exit path, the
\* runtime holds no active connection for the session, no approval callback
\* is registered for it and no approval request is pending for it; this
\* stays so once the call is over.
C21_ExitTearsDown ==
    /\ [][ (turn.pc \in {"finally", "finally_clear"} /\ turn'.pc = "idle")
             => TornDown(active', callback', pending') ]_vars
    /\ []((turns = MaxTurns /\ turn.pc = "idle")
             => TornDown(active, callback, pending))

\* The turn is over while a hook of it is still blocked on its request: the
\* request is no longer pending.
C21_Witness ==
    /\ turns = MaxTurns
    /\ turn.pc = "idle"
    /\ \E h \in Hooks : hooks[h].pc = "wait" /\ hooks[h].req # 0
    /\ TornDown(active, callback, pending)

(***************************************************************************)
(* SpecCmd: approval rules and bash risk                                   *)
(*                                                                         *)
(* A command is the sequence of its characters. Regular expressions are    *)
(* sequences of tokens written as in the source: a literal character,      *)
(* "\\b", or a character class with its quantifier.                        *)
(***************************************************************************)
WhiteSpace == {" ", "\n", "\t"}

WordChars ==
    { "a", "b", "c", "d", "e", "f", "g", "h", "i", "j", "k", "l", "m",
      "n", "o", "p", "q", "r", "s", "t", "u", "v", "w", "x", "y",
      "z", "A", "B", "C", "D", "E", "F", "G", "H", "I", "J", "K",
      "L", "M", "N", "O", "P", "Q", "R", "S", "T", "U", "V", "W",
      "X", "Y", "Z", "0", "1", "2", "3", "4", "5", "6", "7", "8",
      "9", "_" }

\* re: \b at position j of s, between s[j-1] and s[j].
IsBoundary(s, j) ==
    LET W(k) == k \in 1..Len(s) /\ s[k] \in WordChars
    IN  W(j - 1) # W(j)

\* re: the character class of a token.
Fits(tok, c) ==
    CASE tok \in {"\\s+", "\\s*"}    -> c \in WhiteSpace
      [] tok \in {"[^\\s]*", "\\S"} -> c \notin WhiteSpace
      [] tok = ".*"                  -> c # "\n"
      [] OTHER                       -> c = tok

RECURSIVE MatchAt(_, _, _, _)
\* re: the tokens of p from the i-th on match s from position j on.
MatchAt(p, i, s, j) ==
    IF i > Len(p) THEN TRUE
    ELSE LET tok == p[i]
             fits == j <= Len(s) /\ Fits(tok, s[j])
         IN  CASE tok = "\\b" -> IsBoundary(s, j) /\ MatchAt(p, i + 1, s, j)
               [] tok \in {"\\s*", ".*", "[^\\s]*"} ->
                    \/ MatchAt(p, i + 1, s, j)
                    \/ fits /\ MatchAt(p, i, s, j + 1)
               [] tok = "\\s+" ->
                    fits /\ (\/ MatchAt(p, i + 1, s, j + 1)
                             \/ MatchAt(p, i, s, j + 1))
               [] OTHER -> fits /\ MatchAt(p, i + 1, s, j + 1)

\* re.Pattern.search.
search(p, s) == \E j \in 1..(Len(s) + 1) : MatchAt(p, 1, s, j)

RECURSIVE FnMatchAt(_, _, _, _)
FnMatchAt(pat, i, name, j) ==
    IF i > Len(pat) THEN j > Len(name)
    ELSE IF pat[i] = "*"
      THEN \/ FnMatchAt(pat, i + 1, name, j)
           \/ j <= Len(name) /\ FnMatchAt(pat, i, name, j + 1)
      ELSE j <= Len(name) /\ name[j] = pat[i]
             /\ FnMatchAt(pat, i + 1, name, j + 1)

\* fnmatch.fnmatch for patterns of literal characters and "*".
fnmatch(name, pat) == FnMatchAt(pat, 1, name, 1)

RECURSIVE lstrip(_)
lstrip(s) ==
    IF s # << >> /\ Head(s) \in WhiteSpace THEN lstrip(Tail(s)) ELSE s

RECURSIVE rstrip(_)
rstrip(s) ==
    IF s # << >> /\ s[Len(s)] \in WhiteSpace
      THEN rstrip(SubSeq(s, 1, Len(s) - 1)) ELSE s

\* str.strip.
strip(s) == lstrip(rstrip(s))

RECURSIVE SplitFrom(_, _, _, _)
\* The pieces of s from position j on, cur being the piece in progress;
\* single: the one-character operators.
SplitFrom(s, j, cur, single) ==
    IF j > Len(s) THEN <<cur>>
    ELSE IF j < Len(s) /\ <<s[j], s[j + 1]>> \in {<<"&", "&">>, <<"|", "|">>}
      THEN <<cur>> \o SplitFrom(s, j + 2, << >>, single)
    ELSE IF s[j] \in single
      THEN <<cur>> \o SplitFrom(s, j + 1, << >>, single)
    ELSE SplitFrom(s, j + 1, Append(cur, s[j]), single)

\* re.split on \s*(?:&&|\|\||<single>)\s* : the pieces between operators,
\* without the blanks next to an operator.
re_split(s, single) ==
    LET pieces == SplitFrom(s, 1, << >>, single)
        n == Len(pieces)
    IN  [k \in 1..n |->
           LET l == IF k > 1 THEN lstrip(pieces[k]) ELSE pieces[k]
           IN  IF k < n THEN rstrip(l) ELSE l]

\* ApprovalRule._SHELL_SPLIT_RE and _COMPOUND_SPLIT: their single-character
\* operators.
SHELL_SPLIT_RE == {";", "|"}
COMPOUND_SPLIT == {";"}

\* A splitter that does not know the pipe (mutant).
matches_pattern_NoPipe(patterns, command) ==
    /\ patterns # {}
    /\ LET stripped == [k \in DOMAIN re_split(strip(command), {";"}) |->
                          strip(re_split(strip(command), {";"})[k])]
           segments == SelectSeq(stripped, LAMBDA x : x # << >>)
       IN  /\ segments # << >>
           /\ \A k \in DOMAIN segments :
                \E pattern \in patterns : fnmatch(segments[k], pattern)

\* ApprovalRule._matches_any_pattern.
matches_any_pattern(patterns, command) ==
    \E pattern \in patterns : fnmatch(command, pattern)

\* ApprovalRule.matches_pattern.
matches_pattern(patterns, command) ==
    IF patterns = {} THEN FALSE
    ELSE LET split == re_split(strip(command), SHELL_SPLIT_RE)
             stripped == [k \in DOMAIN split |-> strip(split[k])]
             segments == SelectSeq(stripped, LAMBDA x : x # << >>)
         IN  IF segments = << >> THEN FALSE
             ELSE \A k \in DOMAIN segments :
                    matches_any_pattern(patterns, segments[k])

BashPatterns ==
    { <<"g", "i", "t", " ", "s", "t", "a", "t", "u", "s", "*">>,
      <<"g", "i", "t", " ", "l", "o", "g", "*">>,
      <<"g", "i", "t", " ", "d", "i", "f", "f", "*">>,
      <<"g", "i", "t", " ", "b", "r", "a", "n", "c", "h", "*">>,
      <<"g", "i", "t", " ", "s", "h", "o", "w", "*">>,
      <<"l", "s", "*">>,
      <<"p", "w", "d">>,
      <<"c", "a", "t", " ", "*">>,
      <<"e", "c", "h", "o", " ", "*">>,
      <<"h", "e", "a", "d", " ", "*">>,
      <<"t", "a", "i", "l", " ", "*">>,
      <<"w", "c", " ", "*">>,
      <<"w", "h", "i", "c", "h", " ", "*">>,
      <<"t", "y", "p", "e", " ", "*">>,
      <<"n", "p", "m", " ", "l", "i", "s", "t", "*">>,
      <<"n", "p", "m", " ", "o", "u", "t", "d", "a", "t", "e", "d", "*">>,
      <<"n", "p", "m", " ", "v", "i", "e", "w", "*">>,
      <<"p", "i", "p", " ", "l", "i", "s", "t", "*">>,
      <<"p", "i", "p", " ", "s", "h", "o", "w", "*">>,
      <<"p", "y", "t", "h", "o", "n", " ", "-", "-", "v", "e", "r", "s", "i",
        "o", "n", "*">>,
      <<"n", "o", "d", "e", " ", "-", "-", "v", "e", "r", "s", "i", "o", "n",
        "*">> }

\* DEFAULT_RULES, by tool name.
DEFAULT_RULES ==
    [t \in {"Read", "Glob", "Grep", "WebSearch", "WebFetch", "Write",
            "Edit", "MultiEdit", "Bash"} |->
       [auto_approve |-> t \in {"Read", "Glob", "Grep", "WebSearch",
                                "WebFetch"},
        patterns |-> IF t = "Bash" THEN BashPatterns ELSE {}]]

\* A check that auto-approves what has no rule (mutant).
ApprovalHandler_requires_approval_UnknownPasses(rules, tool_name, command) ==
    IF tool_name \notin DOMAIN rules THEN FALSE
    ELSE IF rules[tool_name].auto_approve THEN FALSE
    ELSE IF tool_name = "Bash" /\ rules[tool_name].patterns # {}
              /\ matches_pattern(rules[tool_name].patterns, command)
      THEN FALSE
    ELSE TRUE

\* ApprovalHandler.requires_approval; command: tool_input.get("command", "").
ApprovalHandler_requires_approval(rules, tool_name, command) ==
    IF tool_name \notin DOMAIN rules THEN TRUE
    ELSE IF rules[tool_name].auto_approve THEN FALSE
    ELSE IF tool_name = "Bash" /\ rules[tool_name].patterns # {}
              /\ matches_pattern(rules[tool_name].patterns, command)
      THEN FALSE
    ELSE TRUE

DANGEROUS_PATTERNS ==
    { <<"\\b", "r", "m", "\\s+", ".*", "-", "[^\\s]*", "r", "[^\\s]*", "f">>,
      <<"\\b", "r", "m", "\\s+", ".*", "-", "[^\\s]*", "f", "[^\\s]*", "r">>,
      <<"\\b", "s", "u", "d", "o", "\\s+", "r", "m", "\\b">>,
      <<"\\b", "m", "k", "f", "s", "\\b">>,
      <<"\\b", "d", "d", "\\s+">>,
      <<">", "\\s*", "/", "d", "e", "v", "/">>,
      <<"|", "\\s*", "s", "h", "\\b">>,
      <<"|", "\\s*", "b", "a", "s", "h", "\\b">>,
      <<"\\b", "c", "u", "r", "l", "\\b", ".*", "|", "\\s*", "s", "h",
        "\\b">>,
      <<"\\b", "c", "u", "r", "l", "\\b", ".*", "|", "\\s*", "b", "a", "s",
        "h", "\\b">>,
      <<"\\b", "w", "g", "e", "t", "\\b", ".*", "|", "\\s*", "s", "h",
        "\\b">>,
      <<"\\b", "w", "g", "e", "t", "\\b", ".*", "|", "\\s*", "b", "a", "s",
        "h", "\\b">>,
      <<"\\b", "c", "h", "m", "o", "d", "\\s+", "7", "7", "7", "\\b">>,
      <<"\\b", "c", "h", "o", "w", "n", "\\s+", "-", "R", "\\b">>,
      <<"\\b", "g", "i", "t", "\\s+", "p", "u", "s", "h", "\\s+", ".*", "-",
        "-", "f", "o", "r", "c", "e", "\\b">>,
      <<"\\b", "g", "i", "t", "\\s+", "r", "e", "s", "e", "t", "\\s+", "-",
        "-", "h", "a", "r", "d", "\\b">>,
      <<"\\b", "g", "i", "t", "\\s+", "c", "l", "e", "a", "n", "\\s+", "-",
        "f">>,
      <<":", "(", ")", "\\s*", "{">>,
      <<"\\b", "e", "v", "a", "l", "\\s+">>,
      <<"\\b", "s", "h", "\\s+", "-", "c", "\\b">>,
      <<"\\b", "b", "a", "s", "h", "\\s+", "-", "c", "\\b">> }

MEDIUM_RISK_PATTERNS ==
    { <<"\\b", "r", "m", "\\s+">>,
      <<"\\b", "s", "u", "d", "o", "\\b">>,
      <<"\\b", "g", "i", "t", "\\s+", "p", "u", "s", "h", "\\b">>,
      <<"\\b", "g", "i", "t", "\\s+", "c", "h", "e", "c", "k", "o", "u", "t",
        "\\s+", ".", "\\b">>,
      <<"\\b", "g", "i", "t", "\\s+", "s", "t", "a", "s", "h", "\\s+", "d",
        "r", "o", "p", "\\b">>,
      <<"\\b", "p", "i", "p", "\\s+", "i", "n", "s", "t", "a", "l", "l",
        "\\b">>,
      <<"\\b", "n", "p", "m", "\\s+", "i", "n", "s", "t", "a", "l", "l",
        "\\b">>,
      <<"\\b", "y", "a", "r", "n", "\\s+", "a", "d", "d", "\\b">>,
      <<"\\b", "c", "u", "r", "l", "\\b">>,
      <<"\\b", "w", "g", "e", "t", "\\b">>,
      <<"\\b", "k", "i", "l", "l", "\\b">>,
      <<"\\b", "p", "k", "i", "l", "l", "\\b">>,
      <<"\\b", "m", "v", "\\s+">>,
      <<"\\b", "c", "p", "\\s+", "-", "r">>,
      <<"\\b", "e", "n", "v", "\\s+", "\\S">> }

\* A classification that checks the medium-risk patterns first (mutant).
assess_single_command_MediumFirst(command) ==
    IF \E pattern \in MEDIUM_RISK_PATTERNS : search(pattern, command)
      THEN "medium"
    ELSE IF \E pattern \in DANGEROUS_PATTERNS : search(pattern, command)
      THEN "high"
    ELSE "low"

\* _assess_single_command.
assess_single_command(command) ==
    IF \E pattern \in DANGEROUS_PATTERNS : search(pattern, command)
      THEN "high"
    ELSE IF \E pattern \in MEDIUM_RISK_PATTERNS : search(pattern, command)
      THEN "medium"
    ELSE "low"

RISK_ORDER == [low |-> 0, medium |-> 1, high |-> 2]

\* _higher_risk.
higher_risk(a, b) == IF RISK_ORDER[a] >= RISK_ORDER[b] THEN a ELSE b

RECURSIVE MaxRiskFrom(_, _, _)
\* assess_bash_risk, lines 233-243: the loop over the segments.
MaxRiskFrom(segments, k, max_risk) ==
    IF k > Len(segments) THEN max_risk
    ELSE LET segment == strip(segments[k])
         IN  IF segment = << >> THEN MaxRiskFrom(segments, k + 1, max_risk)
             ELSE LET m == higher_risk(max_risk,
                                       assess_single_command(segment))
                  IN  IF m = "high" THEN "high"
                      ELSE MaxRiskFrom(segments, k + 1, m)

\* assess_bash_risk.
assess_bash_risk(command) ==
    LET full_risk == assess_single_command(command)
        segments == re_split(command, COMPOUND_SPLIT)
    IN  IF full_risk = "high" THEN "high"
        ELSE IF Len(segments) <= 1 THEN full_risk
        ELSE MaxRiskFrom(segments, 1, full_risk)

\* The inputs of SpecCmd: simple commands, and commands joined by an operator,
\* a background "&" or a newline.
SimpleCmds ==
    { <<>>,
      <<"l", "s">>,
      <<" ", "l", "s", " ", "-", "l", "a", " ">>,
      <<"l", "s", "o", "f", " ", "x">>,
      <<"p", "w", "d">>,
      <<"c", "a", "t", " ", "x">>,
      <<"e", "c", "h", "o", " ", "x">>,
      <<"e", "c", "h", "o", " ", "x", " ", ">", " ", "/", "d", "e", "v", "/",
        "n", "u", "l", "l">>,
      <<"e", "c", "h", "o", " ", "$", "(", "r", "m", " ", "-", "r", "f", " ",
        "x", ")">>,
      <<"g", "i", "t", " ", "s", "t", "a", "t", "u", "s">>,
      <<"r", "m", " ", "x">>,
      <<"r", "m", " ", "-", "r", "f", " ", "x">>,
      <<"s", "u", "d", "o", " ", "r", "m", " ", "x">>,
      <<"s", "h">>,
      <<"c", "u", "r", "l", " ", "x">>,
      <<"d", "d", " ", "x">> }

Joiners ==
    { <<" ", "&", "&", " ">>,
      <<"&", "&">>,
      <<" ", "|", "|", " ">>,
      <<";">>,
      <<" ", "|", " ">>,
      <<" ", "&", " ">>,
      <<"\n">> }

MaxJoins == 1

RECURSIVE CommandsOf(_)
CommandsOf(n) ==
    IF n = 0 THEN SimpleCmds
    ELSE CommandsOf(n - 1)
           \cup {c \o j \o s : c \in CommandsOf(n - 1), j \in Joiners,
                               s \in SimpleCmds}

Commands == CommandsOf(MaxJoins)

\* Rule sets: the defaults; Bash auto-approved; Bash without patterns; a
\* pattern on a tool other than Bash.
RuleSets ==
    { DEFAULT_RULES,
      [DEFAULT_RULES EXCEPT !["Bash"].auto_approve = TRUE],
      [DEFAULT_RULES EXCEPT !["Bash"].patterns = {}],
      [DEFAULT_RULES EXCEPT !["Write"].patterns = {<<"l", "s", "*">>}] }

InitCmd ==
    /\ db = NewSession
    /\ tcache = NotLoaded
    /\ call = NoCall
    /\ reqs = << >>
    /\ pending = [s \in Sessions |-> 0]
    /\ ahcall = NoAHCall
    /\ turn = NoTurn
    /\ turns = 0
    /\ active = FALSE
    /\ callback = FALSE
    /\ hooks = [h \in Hooks |-> NoHook]
    /\ nhooks = 0
    /\ fg = NoRequest
    /\ nfg = 0
    /\ \E rules \in RuleSets, tool_name \in {"Read", "Write", "Bash", "Task"},
          command \in Commands :
         fn = [op |-> "input", rules |-> rules, tool_name |-> tool_name,
               command |-> command, ret |-> None]

\* ret: "True" / "False", or the risk level.
Bool(b) == IF b THEN "True" ELSE "False"

Cmd_requires_approval ==
    /\ fn.op = "input"
    /\ fn' = [fn EXCEPT !.op = "requires_approval",
                        !.ret = Bool(ApprovalHandler_requires_approval(
                                       fn.rules, fn.tool_name, fn.command))]
    /\ UNCHANGED <<db, smvars, reqs, pending, ahvars, sysvars>>

\* matches_pattern of the rule the tool has, if any.
Cmd_matches_pattern ==
    /\ fn.op = "input"
    /\ fn.tool_name \in DOMAIN fn.rules
    /\ fn' = [fn EXCEPT !.op = "matches_pattern",
                        !.ret = Bool(matches_pattern(
                                       fn.rules[fn.tool_name].patterns,
                                       fn.command))]
    /\ UNCHANGED <<db, smvars, reqs, pending, ahvars, sysvars>>

Cmd_assess_bash_risk ==
    /\ fn.op = "input"
    /\ fn' = [fn EXCEPT !.op = "assess_bash_risk",
                        !.ret = assess_bash_risk(fn.command)]
    /\ UNCHANGED <<db, smvars, reqs, pending, ahvars, sysvars>>

NextCmd ==
    \/ Cmd_requires_approval
    \/ Cmd_matches_pattern
    \/ Cmd_assess_bash_risk

SpecCmd == InitCmd /\ [][NextCmd]_vars

\* Commands named by the witnesses.
LS_AND_PWD == <<"l", "s", " ", "&", "&", " ", "p", "w", "d">>
LS_PIPE_SH == <<"l", "s", " ", "|", " ", "s", "h">>
LS_AND_RM_RF == <<"l", "s", " ", "&", "&", " ", "r", "m", " ", "-", "r", "f", " ", "x">>

(***************************************************************************)
(* Claims settled under SpecCmd                                            *)
(***************************************************************************)
\* The length of the run of equal characters that ends at position j, and of
\* the one that starts there.
RunBefore(s, j) ==
    CHOOSE n \in 1..j :
      /\ \A i \in (j - n + 1)..j : s[i] = s[j]
      /\ (j - n = 0 \/ s[j - n] # s[j])

RunAfter(s, j) ==
    CHOOSE n \in 1..(Len(s) - j + 1) :
      /\ \A i \in j..(j + n - 1) : s[i] = s[j]
      /\ (j + n > Len(s) \/ s[j + n] # s[j])

\* Position j of s belongs to an operator: a single-character operator, or
\* one of the pairs && and || read from the left of its run.
OperatorAt(s, j, single) ==
    \/ s[j] \in single
    \/ /\ s[j] \in {"&", "|"}
       /\ LET len == RunBefore(s, j) + RunAfter(s, j) - 1
          IN  RunBefore(s, j) <= 2 * (len \div 2)

\* The segments of s: its maximal stretches free of operators.
SegmentsOf(s, single) ==
    { SubSeq(s, ab[1], ab[2]) : ab \in
        { x \in (1..Len(s)) \X (1..Len(s)) :
            /\ x[1] <= x[2]
            /\ \A i \in x[1]..x[2] : ~OperatorAt(s, i, single)
            /\ (x[1] = 1 \/ OperatorAt(s, x[1] - 1, single))
            /\ (x[2] = Len(s) \/ OperatorAt(s, x[2] + 1, single)) } }

NonEmptySegments(s, single) ==
    { strip(seg) : seg \in SegmentsOf(s, single) } \ { << >> }

\* C22: requires_approval is true for a tool without a rule; false for a
\* tool whose rule is auto_approve, whatever the input; for Bash with a
\* non-auto rule, false exactly when the command is safe under the rule's
\* patterns; true for every other tool with a non-auto rule.
C22_RequiresApproval ==
    fn.op = "requires_approval" =>
      LET known == fn.tool_name \in DOMAIN fn.rules
          rule == fn.rules[fn.tool_name]
      IN  /\ ~known => fn.ret = "True"
          /\ (known /\ rule.auto_approve) => fn.ret = "False"
          /\ (known /\ ~rule.auto_approve /\ fn.tool_name = "Bash")
                => ((fn.ret = "False")
                      <=> matches_pattern(rule.patterns, fn.command))
          /\ (known /\ ~rule.auto_approve /\ fn.tool_name # "Bash")
                => fn.ret = "True"

\* A compound Bash command of safe segments is auto-approved under the
\* default rules.
C22_Witness ==
    /\ fn.op = "requires_approval"
    /\ fn.rules = DEFAULT_RULES
    /\ fn.tool_name = "Bash"
    /\ fn.command = LS_AND_PWD
    /\ fn.ret = "False"

\* C23: matches_pattern is true if and only if the rule has a pattern, the
\* command has at least one non-empty segment between the operators &&, ||,
\* ; and |, and every non-empty segment matches at least one pattern.
C23_MatchesPattern ==
    fn.op = "matches_pattern" =>
      LET patterns == fn.rules[fn.tool_name].patterns
          segments == NonEmptySegments(fn.command, {";", "|"})
      IN  (fn.ret = "True")
            <=> (/\ patterns # {}
                 /\ segments # {}
                 /\ \A seg \in segments :
                      \E pattern \in patterns : fnmatch(seg, pattern))

\* A safe command piped into a shell is not safe: the segment after the pipe
\* matches no pattern.
C23_Witness ==
    /\ fn.op = "matches_pattern"
    /\ fn.rules = DEFAULT_RULES
    /\ fn.tool_name = "Bash"
    /\ fn.command = LS_PIPE_SH
    /\ fn.ret = "False"

\* C24: under the default rules every Bash command the risk engine
\* classifies high requires approval.
C24_NoFalseNegative ==
    (fn.op = "requires_approval" /\ fn.rules = DEFAULT_RULES
        /\ fn.tool_name = "Bash" /\ assess_bash_risk(fn.command) = "high")
    => fn.ret = "True"

\* The higher of a set of risk levels.
MaxRisk(levels) ==
    CHOOSE r \in levels : \A q \in levels : RISK_ORDER[r] >= RISK_ORDER[q]

\* The classification of one command string: high-risk patterns first.
Classify(command) ==
    LET high == \E pattern \in DANGEROUS_PATTERNS : search(pattern, command)
        medium == \E pattern \in MEDIUM_RISK_PATTERNS :
                    search(pattern, command)
    IN  CASE high -> "high"
          [] medium /\ ~high -> "medium"
          [] OTHER -> "low"

\* C30: assess_bash_risk is the maximum of the classification of the full
\* command and of the classifications of its segments between &&, || and ;
\* so it is never lower than the risk of a segment taken alone.
C30_MaxOverSegments ==
    fn.op = "assess_bash_risk" =>
      LET segments == SegmentsOf(fn.command, {";"})
      IN  /\ fn.ret = MaxRisk({Classify(fn.command)}
                                \cup {Classify(seg) : seg \in segments})
          /\ \A seg \in segments :
                /\ RISK_ORDER[fn.ret] >= RISK_ORDER[Classify(seg)]
                /\ RISK_ORDER[fn.ret] >= RISK_ORDER[Classify(strip(seg))]

\* A compound command whose full string is high only through its second
\* segment.
C30_Witness ==
    /\ fn.op = "assess_bash_risk"
    /\ fn.command = LS_AND_RM_RF
    /\ fn.ret = "high"

(***************************************************************************)
(***************************************************************************)
(* SpecStream: the turns of one session, one after the other, each         *)
(* consuming its event stream one event at a time                          *)
(***************************************************************************)
MaxStreamTurns == 2
MaxEvents == 5

\* A key the event dict does not carry.
Absent == "absent"

\* An AgentMessage dict: the keys the orchestrator and the mapper read.
Event(type, session_id, content, tool_name, tool_result, cost, is_complete) ==
    [type |-> type, session_id |-> session_id, content |-> content,
     tool_name |-> tool_name, tool_result |-> tool_result,
     total_cost_usd |-> cost, is_complete |-> is_complete]

\* The events a stream yields. _process_result_message always sets
\* is_complete, and content only on a failed result that carries a text.
\* The types "turn", "wait", "approve" and "deny" are not events: fn.log
\* uses them to record that a turn began, that a hook waits for a decision
\* and that the decision arrived.
StreamEvents ==
    { Event("init", "ext-1", Absent, Absent, Absent, Absent, Absent) }
    \cup { Event("text", Absent, c, Absent, Absent, Absent, Absent) :
             c \in {"Sure", ""} }
    \cup { Event("tool_use", Absent, Absent, t, Absent, Absent, Absent) :
             t \in {"Write", "Read"} }
    \cup { Event("tool_result", Absent, Absent, Absent, "ok", Absent, Absent) }
    \cup { Event("result", "ext-1", Absent, Absent, Absent, c, "True") :
             c \in {Absent, "0.0", "0.02"} }
    \cup { Event("result", "ext-1", t, Absent, Absent, "0.02", "False") :
             t \in {Absent, "agent failed"} }

\* A mapping table without the system rows of init and result (mutant).
MESSAGE_TYPE_TO_ROLE_NoSystem(msg_type) ==
    CASE msg_type = "text" -> "assistant"
      [] msg_type = "tool_use" -> "tool_use"
      [] msg_type = "tool_result" -> "tool_result"
      [] msg_type = "user" -> "user"
      [] OTHER -> None

\* constants.py, MESSAGE_TYPE_TO_ROLE, read by MessageMapper.get_role;
\* None: dict.get finds no key.
MESSAGE_TYPE_TO_ROLE(msg_type) ==
    CASE msg_type = "init" -> "system"
      [] msg_type = "text" -> "assistant"
      [] msg_type = "tool_use" -> "tool_use"
      [] msg_type = "tool_result" -> "tool_result"
      [] msg_type = "result" -> "system"
      [] msg_type = "user" -> "user"
      [] OTHER -> None

\* MessageMapper.get_content; the f-strings f"Tool: {tool_name}",
\* f"Session started: {session_id}" and f"Session completed. Cost:
\* ${cost:.4f}" on the values the events carry.
get_content(message) ==
    CASE message.type = "text" ->
           IF message.content = Absent THEN "" ELSE message.content
      [] message.type = "tool_use" ->
           CASE message.tool_name = "Write" -> "Tool: Write"
             [] message.tool_name = "Read" -> "Tool: Read"
             [] OTHER -> "Tool: unknown"
      [] message.type = "tool_result" ->
           IF message.tool_result = Absent THEN "" ELSE message.tool_result
      [] message.type = "init" ->
           IF message.session_id = "ext-1" THEN "Session started: ext-1"
           ELSE "Session started: "
      [] message.type = "result" ->
           IF message.total_cost_usd = "0.02"
             THEN "Session completed. Cost: $0.0200"
             ELSE "Session completed. Cost: $0.0000"
      [] message.type = "error" ->
           IF message.content = Absent THEN "Unknown error"
           ELSE message.content
      [] OTHER -> None

\* No result counts as a success (mutant).
is_successful_completion_Never(message) == FALSE

\* MessageMapper.is_successful_completion.
is_successful_completion(message) ==
    message.type = "result" /\ message.is_complete = "True"

\* get_cost reading the cost twice over (mutant).
get_cost_Double(message) ==
    IF message.total_cost_usd = "0.02" THEN 4 ELSE 0

\* MessageMapper.get_cost, in cents; 0 when the event has no cost.
get_cost(message) ==
    IF message.total_cost_usd = "0.02" THEN 2 ELSE 0

\* fn holds the turn in progress (pc, kind, cache: the turn's handle), the
\* messages table, and the history the claims read: the events processed
\* (log), the statuses persisted (trail) and the costs reported (reported).
InitStream ==
    /\ db = NewSession
    /\ tcache = NotLoaded
    /\ call = NoCall
    /\ reqs = << >>
    /\ pending = [s \in Sessions |-> 0]
    /\ ahcall = NoAHCall
    /\ turn = NoTurn
    /\ turns = 0
    /\ active = FALSE
    /\ callback = FALSE
    /\ hooks = [h \in Hooks |-> NoHook]
    /\ nhooks = 0
    /\ fg = NoRequest
    /\ nfg = 0
    /\ fn = [op |-> "stream", pc |-> "idle", kind |-> "start",
             cache |-> NotLoaded, messages |-> << >>, nturns |-> 0,
             nevents |-> 0, log |-> << >>, trail |-> <<IDLE>>,
             reported |-> 0]

\* The persisted status after a write, appended to the history.
Trailed(f, row) ==
    IF row.status = f.trail[Len(f.trail)] THEN f
    ELSE [f EXCEPT !.trail = Append(@, row.status)]

\* A commit of the turn's handle followed by its refresh.
StrCommit(s, session) ==
    LET loaded == get_session(s.fn.cache, s.db)
        row == Flush(s.db, loaded, session)
    IN  [db |-> row, fn |-> Trailed([s.fn EXCEPT !.cache = row], row)]

\* SessionManager.add_message on the turn's handle: a row of the messages
\* table.
StrAddMessage(s, role, content, message_type) ==
    [s EXCEPT !.fn.cache = get_session(s.fn.cache, s.db),
              !.fn.messages = Append(@, [role |-> role, content |-> content,
                                         message_type |-> message_type])]

\* update_session_status on the turn's handle: ok is FALSE when the
\* transition is rejected (SessionStateError).
StrUpdate(s, new_status, error_message) ==
    LET session == get_session(s.fn.cache, s.db)
    IN  IF new_status \in VALID_TRANSITIONS[session.status]
          THEN [ok |-> TRUE,
                s |-> StrCommit(s, ApplyTransition(session, new_status,
                                                   error_message, None))]
          ELSE [ok |-> FALSE, s |-> [s EXCEPT !.fn.cache = session]]

\* _safe_fail_session with the text start_session or resume_session hands
\* it, then finally: the turn is over and its handle closed.
StrFail(s, start_text, resume_text) ==
    LET u == StrUpdate(s, ERROR, IF s.fn.kind = "start" THEN start_text
                                 ELSE resume_text)
    IN  [u.s EXCEPT !.fn.pc = "idle", !.fn.cache = NotLoaded]

\* _ensure_terminal_state, then finally.
StrEnsure(s) ==
    LET session == get_session(s.fn.cache, s.db)
        u == StrUpdate(s, COMPLETED, None)
    IN  IF session.status # RUNNING \/ u.ok
          THEN [(IF session.status = RUNNING THEN u.s ELSE s)
                  EXCEPT !.fn.pc = "idle", !.fn.cache = NotLoaded]
          ELSE StrFail(u.s, STATE_ERROR, "Invalid state transition")

\* _process_message_stream, lines 259-269: completion handling; the stream
\* of a turn ends with its result event.
StrCompletion(s, message) ==
    LET cost == get_cost(message)
        session == get_session(s.fn.cache, s.db)
        s1 == IF cost # 0
                THEN StrCommit(s, [session EXCEPT !.total_cost_usd = @ + cost])
                ELSE s
        u == IF is_successful_completion(message)
               THEN StrUpdate(s1, COMPLETED, None)
               ELSE StrUpdate(s1, ERROR,
                              get_error_message(
                                  IF message.content = Absent THEN None
                                  ELSE message.content))
    IN  IF u.ok THEN StrEnsure(u.s)
        ELSE StrFail(u.s, STATE_ERROR, "Invalid state transition")

\* create_session / send_prompt schedule a turn: _transition_to_running on
\* a new handle; resume_session stores the user's prompt.
Str_start ==
    /\ fn.op = "stream"
    /\ fn.pc = "idle"
    /\ fn.nturns < MaxStreamTurns
    /\ LET kind == IF db.claude_session_id # None THEN "resume" ELSE "start"
           s0 == [db |-> db,
                  fn |-> [fn EXCEPT !.pc = "stream", !.kind = kind,
                                    !.cache = NotLoaded, !.nturns = @ + 1,
                                    !.log = Append(@,
                                        Event("turn", Absent, Absent, Absent,
                                              Absent, Absent, Absent))]]
           u == IF db.status = RUNNING
                  THEN [ok |-> TRUE, s |-> [s0 EXCEPT !.fn.cache = db]]
                  ELSE StrUpdate(s0, RUNNING, None)
           s1 == IF ~u.ok
                   THEN StrFail(u.s, STATE_ERROR, "Invalid state transition")
                   ELSE IF kind = "resume"
                          THEN StrAddMessage(u.s, "user", "more", "user")
                          ELSE u.s
       IN  /\ db' = s1.db
           /\ fn' = s1.fn
    /\ UNCHANGED <<smvars, reqs, pending, ahvars, sysvars>>

\* One pass of the loop of _process_message_stream: capture the external
\* session id of a started session, store the event's row when it has a
\* role and a content, handle a result.
Str_event(message) ==
    /\ fn.op = "stream"
    /\ fn.pc = "stream"
    /\ fn.nevents < MaxEvents
    /\ LET s0 == [db |-> db,
                  fn |-> [fn EXCEPT !.nevents = @ + 1,
                                    !.log = Append(@, message),
                                    !.reported = @ +
                                        (IF message.total_cost_usd = "0.02"
                                           THEN 2 ELSE 0)]]
           session == get_session(fn.cache, db)
           captured == [session EXCEPT !.claude_session_id =
                                            message.session_id]
           s1 == IF fn.kind = "start" /\ message.type = "init"
                      /\ message.session_id # Absent
                   THEN [db |-> Flush(db, session, captured),
                         fn |-> [s0.fn EXCEPT !.cache = captured]]
                   ELSE s0
           role == MESSAGE_TYPE_TO_ROLE(message.type)
           content == get_content(message)
           s2 == IF role # None /\ content \notin {None, ""}
                   THEN StrAddMessage(s1, role, content, message.type)
                   ELSE s1
           s3 == IF message.type = "result"
                   THEN StrCompletion(s2, message) ELSE s2
       IN  /\ db' = s3.db
           /\ fn' = s3.fn
    /\ UNCHANGED <<smvars, reqs, pending, ahvars, sysvars>>

\* The stream ends without a result event.
Str_end ==
    /\ fn.op = "stream"
    /\ fn.pc = "stream"
    /\ LET s == StrEnsure([db |-> db, fn |-> fn])
       IN  /\ db' = s.db
           /\ fn' = s.fn
    /\ UNCHANGED <<smvars, reqs, pending, ahvars, sysvars>>

\* The adapter raises while the stream is consumed.
Str_raise ==
    /\ fn.op = "stream"
    /\ fn.pc = "stream"
    /\ LET s == StrFail([db |-> db, fn |-> fn], ADAPTER_ERROR, "boom")
       IN  /\ db' = s.db
           /\ fn' = s.fn
    /\ UNCHANGED <<smvars, reqs, pending, ahvars, sysvars>>

\* The tool call of the last event needs an approval: on_approval_required
\* stores the payload on its own handle and the hook waits.
Str_wait ==
    /\ fn.op = "stream"
    /\ fn.pc = "stream"
    /\ Len(fn.log) > 0
    /\ LET last == fn.log[Len(fn.log)]
       IN  /\ last.type = "tool_use"
           /\ ApprovalHandler_requires_approval(DEFAULT_RULES,
                                                last.tool_name, << >>)
           /\ CanSetPendingApproval(db)
           /\ db' = ApplyPendingApproval(db,
                        [tool_name |-> last.tool_name,
                         tool_use_id |-> "call-1"])
    /\ fn' = Trailed([fn EXCEPT !.pc = "waiting",
                                !.log = Append(@,
                                    Event("wait", Absent, Absent, Absent,
                                          Absent, Absent, Absent))], db')
    /\ UNCHANGED <<smvars, reqs, pending, ahvars, sysvars>>

\* _process_approval_decision on the request's handle: back to RUNNING,
\* then the hook is released.
Str_decide ==
    /\ fn.op = "stream"
    /\ fn.pc = "waiting"
    /\ db.status = WAITING_APPROVAL
    /\ db' = ApplyTransition(db, RUNNING, None, None)
    /\ \E d \in {"approve", "deny"} :
         fn' = Trailed([fn EXCEPT !.pc = "stream",
                                  !.log = Append(@,
                                      Event(d, Absent, Absent, Absent,
                                            Absent, Absent, Absent))], db')
    /\ UNCHANGED <<smvars, reqs, pending, ahvars, sysvars>>

NextStream ==
    \/ Str_start
    \/ \E message \in StreamEvents : Str_event(message)
    \/ Str_end
    \/ Str_raise
    \/ Str_wait
    \/ Str_decide

SpecStream == InitStream /\ [][NextStream]_vars

(***************************************************************************)
(* Claims settled under SpecStream                                         *)
(***************************************************************************)
\* The step processes the event e, and the rows it added to the messages
\* table.
Processed(e) == fn'.log = Append(fn.log, e)
NewRows == SubSeq(fn'.messages, Len(fn.messages) + 1, Len(fn'.messages))
Message(role, content, message_type) ==
    [role |-> role, content |-> content, message_type |-> message_type]
Marker(type) == Event(type, Absent, Absent, Absent, Absent, Absent, Absent)

StoresText(e) ==
    (e.type = "text" /\ e.content = "Sure")
        => NewRows = <<Message("assistant", "Sure", "text")>>
StoresToolUse(e) ==
    /\ (e.type = "tool_use" /\ e.tool_name = "Write")
         => NewRows = <<Message("tool_use", "Tool: Write", "tool_use")>>
    /\ (e.type = "tool_use" /\ e.tool_name = "Read")
         => NewRows = <<Message("tool_use", "Tool: Read", "tool_use")>>
StoresToolResult(e) ==
    (e.type = "tool_result" /\ e.tool_result = "ok")
        => NewRows = <<Message("tool_result", "ok", "tool_result")>>
InitRecordsId(e) ==
    (e.type = "init" /\ fn.kind = "start")
        => db'.claude_session_id = e.session_id
ResultCompletes(e) ==
    e.type = "result"
        => /\ fn'.pc = "idle"
           /\ db'.status = IF e.is_complete = "True" THEN COMPLETED ELSE ERROR

ScenarioLog ==
    << Marker("turn"),
       Event("init", "ext-1", Absent, Absent, Absent, Absent, Absent),
       Event("text", Absent, "Sure", Absent, Absent, Absent, Absent),
       Event("tool_use", Absent, Absent, "Write", Absent, Absent, Absent),
       Marker("wait"),
       Marker("approve"),
       Event("tool_result", Absent, Absent, Absent, "ok", Absent, Absent),
       Event("result", "ext-1", Absent, Absent, Absent, "0.02", "True") >>

ScenarioWaiting ==
    fn.log = SubSeq(ScenarioLog, 1, 5)
        => /\ db.status = WAITING_APPROVAL
           /\ db.pending_approval.tool_name = "Write"

ScenarioEnd(stored) ==
    fn.log = ScenarioLog
        => /\ fn.trail = <<IDLE, RUNNING, WAITING_APPROVAL, RUNNING,
                           COMPLETED>>
           /\ db.status = COMPLETED
           /\ db.total_cost_usd = 2
           /\ Len(fn.messages) = stored

TotalIsSum == fn.op = "stream" => db.total_cost_usd = fn.reported

AddedOnce ==
    db'.total_cost_usd # db.total_cost_usd
        => \E e \in StreamEvents :
             /\ e.type = "result"
             /\ e.total_cost_usd = "0.02"
             /\ Processed(e)
             /\ db'.total_cost_usd = db.total_cost_usd + 2

\* C27: the total cost is 0 at creation and, after any sequence of turns, the
\* sum of the costs the processed result events reported; each reported cost
\* is added once, and a result without a cost or a status transition alone
\* adds nothing.
C27_CumulativeCost == [](TotalIsSum) /\ [][AddedOnce]_vars

\* Two turns, each ended by a result that reported a cost.
C27_Witness ==
    /\ fn.op = "stream"
    /\ fn.pc = "idle"
    /\ fn.nturns = 2
    /\ fn.reported = 4
    /\ db.total_cost_usd = 4

(***************************************************************************)
(* SpecDiff: generate_write_diff applied to a file's content               *)
(***************************************************************************)
INLINE_MAX_BYTES == 100000
PREVIEW_HEAD_LINES == 250
PREVIEW_TAIL_LINES == 250

\* A line of text: its number in the content (0: a line the diff adds), its
\* first characters and its length in bytes, newline included.
Line(no, head, bytes) == [no |-> no, head |-> head, bytes |-> bytes]

\* str.startswith on the first characters of a line.
startswith(line, prefix) ==
    /\ Len(prefix) <= Len(line.head)
    /\ SubSeq(line.head, 1, Len(prefix)) = prefix

RECURSIVE SumBytes(_, _, _)
\* len("".join(lines).encode()) of the lines from lo to hi.
SumBytes(lines, lo, hi) ==
    IF lo > hi THEN 0
    ELSE IF lo = hi THEN lines[lo].bytes
    ELSE LET mid == (lo + hi) \div 2
         IN  SumBytes(lines, lo, mid) + SumBytes(lines, mid + 1, hi)

Digits(n) == IF n < 10 THEN 1 ELSE IF n < 100 THEN 2 ELSE 3

\* difflib.unified_diff([], new_lines, "a/f.py", "b/f.py", n=0): nothing for
\* no lines, otherwise the two file lines, the hunk line and each new line
\* after a "+".
unified_diff(new_lines) ==
    IF new_lines = << >> THEN << >>
    ELSE << Line(0, <<"-", "-", "-">>, 11),
            Line(0, <<"+", "+", "+">>, 11),
            Line(0, <<"@", "@", " ">>,
                 IF Len(new_lines) = 1 THEN 14
                 ELSE 15 + Digits(Len(new_lines))) >>
         \o [k \in 1..Len(new_lines) |->
               Line(new_lines[k].no, <<"+">> \o new_lines[k].head,
                    new_lines[k].bytes + 1)]

\* _compute_stats.
compute_stats(diff_lines) ==
    [additions |->
       Cardinality({k \in 1..Len(diff_lines) :
                      /\ startswith(diff_lines[k], <<"+">>)
                      /\ ~startswith(diff_lines[k], <<"+", "+", "+">>)}),
     deletions |->
       Cardinality({k \in 1..Len(diff_lines) :
                      /\ ~startswith(diff_lines[k], <<"+">>)
                      /\ startswith(diff_lines[k], <<"-">>)
                      /\ ~startswith(diff_lines[k], <<"-", "-", "-">>)})]

\* _build_preview; the text is held as its lines, and the marker
\* f"\n... ({omitted} lines omitted) ...\n\n" as one entry whose number is
\* the count of omitted lines.
build_preview(lines) ==
    LET omitted == Len(lines) - PREVIEW_HEAD_LINES - PREVIEW_TAIL_LINES
    IN  IF Len(lines) <= PREVIEW_HEAD_LINES + PREVIEW_TAIL_LINES
          THEN lines
          ELSE SubSeq(lines, 1, PREVIEW_HEAD_LINES)
               \o << Line(omitted, <<"\n", ".", ".">>,
                          27 + Digits(omitted)) >>
               \o SubSeq(lines, Len(lines) - PREVIEW_TAIL_LINES + 1,
                         Len(lines))

\* A DiffResult; diff=None is << >>: a diff that is returned has a line.
DiffResult(diff, diff_stats, tier, total_bytes, total_lines, truncated) ==
    [diff |-> diff, diff_stats |-> diff_stats, risk_level |-> "low",
     tier |-> tier, total_bytes |-> total_bytes,
     total_lines |-> total_lines, truncated |-> truncated]

\* _finalize_diff; every line ends with its only newline, so the count of
\* newlines is the number of lines.
finalize_diff(diff_lines) ==
    IF diff_lines = << >>
      THEN DiffResult(<< >>, compute_stats(diff_lines), "inline", 0, 0,
                      FALSE)
      ELSE LET total_bytes == SumBytes(diff_lines, 1, Len(diff_lines))
               total_lines == Len(diff_lines)
               stats == compute_stats(diff_lines)
           IN  IF total_bytes <= INLINE_MAX_BYTES
                 THEN DiffResult(diff_lines, stats, "inline", total_bytes,
                                 total_lines, FALSE)
                 ELSE DiffResult(build_preview(diff_lines), stats,
                                 "truncated", total_bytes, total_lines, TRUE)

\* generate_write_diff; is_binary: the content has a null character in its
\* first 8192 characters, and _binary_result puts the line
\* f"Binary file {filename} ({size})" in place of a diff.
generate_write_diff(content, is_binary) ==
    IF is_binary
      THEN DiffResult(<< Line(0, <<"B", "i", "n">>, 0) >>,
                      [additions |-> 0, deletions |-> 0], "inline",
                      SumBytes(content, 1, Len(content)), 0, FALSE)
      ELSE finalize_diff(unified_diff(content))

\* The contents written: n lines of one length, ordinary but for the line at
\* one position.
Content(n, bytes, head, at) ==
    [k \in 1..n |-> Line(k, IF k = at THEN head ELSE <<"a", "b">>, bytes)]

InitDiff ==
    /\ db = NewSession
    /\ tcache = NotLoaded
    /\ call = NoCall
    /\ reqs = << >>
    /\ pending = [s \in Sessions |-> 0]
    /\ ahcall = NoAHCall
    /\ turn = NoTurn
    /\ turns = 0
    /\ active = FALSE
    /\ callback = FALSE
    /\ hooks = [h \in Hooks |-> NoHook]
    /\ nhooks = 0
    /\ fg = NoRequest
    /\ nfg = 0
    /\ \E n \in {0, 1, 2, 3, 497, 498, 501, 502},
          bytes \in {4, 200, 210, 100001},
          head \in { <<"a", "b">>, <<"+", "+">>, <<"-", "-">>, <<"+", "-">> },
          at \in {1, 300}, is_binary \in BOOLEAN :
         fn = [op |-> "input", content |-> Content(n, bytes, head, at),
               is_binary |-> is_binary,
               ret |-> DiffResult(<< >>, [additions |-> 0, deletions |-> 0],
                                  "inline", 0, 0, FALSE)]

Diff_generate_write_diff ==
    /\ fn.op = "input"
    /\ fn' = [fn EXCEPT !.op = "generate_write_diff",
                        !.ret = generate_write_diff(fn.content, fn.is_binary)]
    /\ UNCHANGED <<db, smvars, reqs, pending, ahvars, sysvars>>

NextDiff == Diff_generate_write_diff

SpecDiff == InitDiff /\ [][NextDiff]_vars

(***************************************************************************)
(* Claims settled under SpecDiff                                           *)
(***************************************************************************)
\* generate_write_diff returned a diff of the content.
Generated == fn.op = "generate_write_diff" /\ ~fn.is_binary

\* The full diff of the content written.
FullDiff == unified_diff(fn.content)

\* C28: a diff is inline and returned in full exactly when its byte length
\* is at most 100,000; a longer one is truncated and its preview is the
\* first 250 lines of the full diff, a marker of the lines omitted (the full
\* line count minus 500) and the last 250 lines.
C28_TwoTier ==
    (Generated /\ FullDiff # << >>)
        => LET n == Len(FullDiff)
               bytes == SumBytes(FullDiff, 1, n)
           IN  IF bytes <= 100000
                 THEN fn.ret.tier = "inline" /\ fn.ret.diff = FullDiff
                 ELSE /\ fn.ret.tier = "truncated"
                      /\ n > 500
                      /\ fn.ret.diff = SubSeq(FullDiff, 1, 250)
                                       \o << Line(n - 500,
                                                   <<"\n", ".", ".">>,
                                                   27 + Digits(n - 500)) >>
                                       \o SubSeq(FullDiff, n - 249, n)

\* C29: the stats, the byte count and the line count are those of the full
\* diff, whatever the tier: writing n lines gives n additions and no
\* deletion, whatever the lines contain.
C29_StatsOfFullDiff ==
    Generated
        => /\ fn.ret.diff_stats = [additions |-> Len(fn.content),
                                   deletions |-> 0]
           /\ fn.ret.total_bytes = SumBytes(FullDiff, 1, Len(FullDiff))
           /\ fn.ret.total_lines = Len(FullDiff)

(***************************************************************************)
(* Claims settled under Spec: the stored record and the pending request    *)
(***************************************************************************)
\* C34: the stored error_message of a session is non-null only while its
\* stored status is ERROR.
C34_ErrorMessageOnlyInError ==
    (db.status \in SessionStatus /\ db.error_message # None)
        => db.status = ERROR

\* No approval operation is in mid-flight: no callback is running and no
\* foreground request is being handled (a hook may be waiting on its gate).
NoApprovalInFlight ==
    /\ fg.pc \in {"idle", "done"}
    /\ \A h \in Hooks : hooks[h].pc \in {"idle", "wait", "done"}

\* C35: whenever no approval operation is in mid-flight, the Approval
\* Coordinator holds a pending request for the session exactly when the
\* stored status is WAITING_APPROVAL, and the stored payload then carries the
\* tool-call id of that request.
C35_PendingMirrorsStored ==
    (NoApprovalInFlight /\ ~Deleted)
        => /\ pending[SID] # 0 <=> db.status = WAITING_APPROVAL
           /\ pending[SID] # 0
                => db.pending_approval.tool_use_id
                     = reqs[pending[SID]].tool_use_id

\* The decision in progress resolves a pending request of the session.
Resolves ==
    /\ fg.pc = "signal"
    /\ fg'.pc = "done"
    /\ pending[SID] # 0

\* C36: whenever approve or deny resolves a pending request, the payload
\* that was stored for the session when the decision was taken is the one of
\* that request (same tool-call id).
C36_DecisionOnShownCall ==
    [][ Resolves => fg.shown = reqs[pending[SID]].tool_use_id ]_vars

\* approve or deny returns an error to the client in this step.
DecisionFails ==
    /\ fg.kind \in {"approve", "deny"}
    /\ fg.pc \in {"read", "signal"}
    /\ fg'.pc = "done"
    /\ fg'.ret \in {"not_waiting", "state_error", "no_pending"}

\* C37: whenever approve or deny returns an error, the stored status and
\* payload are those the request found: at its read when it fails there,
\* WAITING_APPROVAL with the payload it was shown when it fails later.
C37_FailedDecisionChangesNothing ==
    [][ (DecisionFails /\ ~Deleted) =>
          /\ db'.status = IF fg.pc = "read" THEN db.status
                          ELSE WAITING_APPROVAL
          /\ db'.pending_approval.tool_use_id
               = IF fg.pc = "read" THEN db.pending_approval.tool_use_id
                 ELSE fg.shown ]_vars

\* start_session / resume_session returns in this step.
TurnReturns ==
    /\ turn.pc \in {"finally", "finally_clear"}
    /\ turn'.pc = "idle"

\* C38: whenever start_session or resume_session returns, by whichever
\* path, the stored status of the session is COMPLETED or ERROR.
C38_TurnEndsTerminal ==
    [][ (TurnReturns /\ db'.status \in SessionStatus)
          => db'.status \in {COMPLETED, ERROR} ]_vars

\* The wait of hook h times out in this step.
TimesOut(h) ==
    /\ hooks[h].pc = "wait"
    /\ hooks'[h].pc = "done"
    /\ hooks'[h].reason = TIMEOUT_REASON

\* C39: when the wait of a hook times out, every request other than the
\* hook's own stays as it was: pending if it was pending, its gate closed
\* and no decision recorded on it.
C39_TimeoutOwnRequestOnly ==
    [][ \A h \in Hooks : TimesOut(h) =>
          \A r \in 1..Len(reqs) : r # hooks[h].req =>
            /\ reqs'[r] = reqs[r]
            /\ pending[SID] = r => pending'[SID] = r ]_vars

(***************************************************************************)
(* Claims settled under SpecAH: the sessions of the Approval Coordinator   *)
(***************************************************************************)
\* The call made in this step is a mutation for a session other than s.
MutatesOther(s) ==
    /\ ahcall'.seq = ahcall.seq + 1
    /\ ahcall'.op \in {"queue_approval", "process_decision", "deny_tool_use",
                       "clear_pending"}
    /\ ahcall'.session_id # s

\* C40: queue_approval, process_decision and clear_pending for one session
\* leave the pending request of every other session, and the decision, the
\* feedback and the gate of every request of another session, as they were.
C40_SessionsIndependent ==
    [][ \A s \in Sessions : MutatesOther(s) =>
          /\ pending'[s] = pending[s]
          /\ \A r \in 1..Len(reqs) :
               reqs[r].session_id = s => reqs'[r] = reqs[r] ]_vars

\* A's request was cleared while B's request is pending with its gate
\* closed.
C40_Witness ==
    /\ ahcall.op = "clear_pending"
    /\ ahcall.session_id = "A"
    /\ pending["A"] = 0
    /\ \E r \in 1..Len(reqs) :
         reqs[r].session_id = "A" /\ reqs[r].feedback = CLEARED_FEEDBACK
    /\ pending["B"] # 0
    /\ ~reqs[pending["B"]].event

(***************************************************************************)
(* SpecRules: ApprovalHandler instances constructed one after the other    *)
(***************************************************************************)
MaxHandlers == 3

\* copy.deepcopy(DEFAULT_RULES): new rule objects, owned by o, with the
\* values the default objects have now. An ApprovalRule object is named by
\* its owner (0: the module, k: the k-th construction) and its tool.
deepcopy(heap, o) ==
    [p \in {<<o, t>> : t \in DOMAIN DEFAULT_RULES} |-> heap[<<0, p[2]>>]]

\* The rule set a caller hands to the k-th construction, with the new rule
\* objects it is built from: None; DEFAULT_RULES itself; the defaults with
\* Write overridden, {**DEFAULT_RULES, "Write": ApprovalRule(...)}; a rule
\* set of its own for Bash; the dict the j-th handler was given.
RuleArg(f, k, kind, j) ==
    CASE kind = "defaults" ->
           [is_none |-> FALSE, new |-> << >>,
            rules |-> [t \in DOMAIN DEFAULT_RULES |-> 0]]
      [] kind = "spread" ->
           [is_none |-> FALSE,
            new |-> [p \in {<<k, "Write">>} |->
                       [auto_approve |-> TRUE, patterns |-> {}]],
            rules |-> [t \in DOMAIN DEFAULT_RULES |->
                         IF t = "Write" THEN k ELSE 0]]
      [] kind = "own" ->
           [is_none |-> FALSE,
            new |-> [p \in {<<k, "Bash">>} |->
                       [auto_approve |-> FALSE,
                        patterns |-> {<<"l", "s", "*">>}]],
            rules |-> [t \in {"Bash"} |-> k]]
      [] kind = "reuse" ->
           [is_none |-> FALSE, new |-> << >>, rules |-> f.handlers[j]]
      [] OTHER ->
           [is_none |-> TRUE, new |-> << >>,
            rules |-> [t \in DOMAIN DEFAULT_RULES |-> k]]

\* ApprovalHandler.__init__: self._rules is the caller's dict, or a deep
\* copy of the defaults when there is none; custom patterns are added to the
\* patterns of the Bash rule object self._rules holds.
ApprovalHandler_init(f, k, arg, custom_patterns) ==
    LET heap1 == IF arg.is_none THEN deepcopy(f.heap, k) @@ f.heap
                 ELSE arg.new @@ f.heap
        heap2 == IF custom_patterns # {} /\ "Bash" \in DOMAIN arg.rules
                   THEN [heap1 EXCEPT
                           ![<<arg.rules["Bash"], "Bash">>].patterns =
                               @ \cup custom_patterns]
                   ELSE heap1
    IN  [f EXCEPT !.heap = heap2, !.handlers = Append(@, arg.rules)]

\* The module is loaded: DEFAULT_RULES and its rule objects, no handler.
InitRules ==
    /\ db = NewSession
    /\ tcache = NotLoaded
    /\ call = NoCall
    /\ reqs = << >>
    /\ pending = [s \in Sessions |-> 0]
    /\ ahcall = NoAHCall
    /\ turn = NoTurn
    /\ turns = 0
    /\ active = FALSE
    /\ callback = FALSE
    /\ hooks = [h \in Hooks |-> NoHook]
    /\ nhooks = 0
    /\ fg = NoRequest
    /\ nfg = 0
    /\ fn = [op |-> "rules", handlers |-> << >>,
             heap |-> [p \in {<<0, t>> : t \in DOMAIN DEFAULT_RULES} |->
                         DEFAULT_RULES[p[2]]]]

\* ApprovalHandler(rules, custom_patterns) is called.
Rules_construct ==
    /\ fn.op = "rules"
    /\ Len(fn.handlers) < MaxHandlers
    /\ \E kind \in {"none", "defaults", "spread", "own", "reuse"},
          j \in 1..MaxHandlers,
          custom_patterns \in {{}, {<<"r", "m", " ", "*">>}} :
         /\ IF kind = "reuse" THEN j <= Len(fn.handlers) ELSE j = 1
         /\ fn' = ApprovalHandler_init(
                      fn, Len(fn.handlers) + 1,
                      RuleArg(fn, Len(fn.handlers) + 1, kind, j),
                      custom_patterns)
    /\ UNCHANGED <<db, smvars, reqs, pending, ahvars, sysvars>>

NextRules == Rules_construct

SpecRules == InitRules /\ [][NextRules]_vars

(***************************************************************************)
(* Claims settled under SpecRules                                          *)
(***************************************************************************)
\* The rule set a handler sees through its dict: the values of the rule
\* objects it holds.
SeenRules(heap, rules) == [t \in DOMAIN rules |-> heap[<<rules[t], t>>]]

\* C32: constructing an ApprovalHandler, with custom rules or with
\* additional bash patterns, changes neither the shared DEFAULT_RULES nor
\* the rule set any handler constructed before sees.
C32_ConstructionLeavesOthers ==
    [][ fn.op = "rules" =>
          /\ \A t \in DOMAIN DEFAULT_RULES :
               fn'.heap[<<0, t>>] = DEFAULT_RULES[t]
          /\ \A j \in 1..Len(fn.handlers) :
               SeenRules(fn'.heap, fn.handlers[j])
                 = SeenRules(fn.heap, fn.handlers[j]) ]_vars

(***************************************************************************)
(* SpecProj: ProjectRegistry calls, one after the other, on one handle     *)
(***************************************************************************)
MaxProjCalls == 3

VALID_PERMISSION_MODES == {"default", "acceptEdits", "manual"}

\* db.commit() on the registry's handle: the flush writes every attribute
\* that changed on a loaded Project object; the objects stay loaded.
\* stored: the projects table; cache: the handle's objects, one per row;
\* accepted: the table as the calls that returned normally describe it.
ProjCommit(f) == [f EXCEPT !.stored = f.cache]

InitProj ==
    /\ db = NewSession
    /\ tcache = NotLoaded
    /\ call = NoCall
    /\ reqs = << >>
    /\ pending = [s \in Sessions |-> 0]
    /\ ahcall = NoAHCall
    /\ turn = NoTurn
    /\ turns = 0
    /\ active = FALSE
    /\ callback = FALSE
    /\ hooks = [h \in Hooks |-> NoHook]
    /\ nhooks = 0
    /\ fg = NoRequest
    /\ nfg = 0
    /\ fn = [op |-> "registry", stored |-> << >>, cache |-> << >>,
             accepted |-> << >>, ncalls |-> 0, call |-> "none",
             raised |-> None]

\* register_project: the permission mode, the path (when validating; the
\* directory "/missing" does not exist) and the duplicate check, then the
\* new row is added and committed.
Proj_register_project ==
    /\ fn.op = "registry"
    /\ fn.ncalls < MaxProjCalls
    /\ \E name \in {"one", "two"}, path \in {"/p", "/q", "/missing"},
          permission_mode \in {"default", "manual", "yolo"},
          validate_path \in BOOLEAN :
         LET project == [name |-> name, path |-> path,
                         permission_mode |-> permission_mode]
             raised ==
                 IF permission_mode \notin VALID_PERMISSION_MODES
                   THEN "ProjectValidationError"
                 ELSE IF validate_path /\ path = "/missing"
                   THEN "ProjectPathInvalidError"
                 ELSE IF \E i \in 1..Len(fn.stored) :
                           fn.stored[i].path = path
                   THEN "ProjectPathExistsError"
                 ELSE None
             f0 == [fn EXCEPT !.ncalls = @ + 1, !.raised = raised,
                              !.call = "register_project"]
         IN  fn' = IF raised # None THEN f0
                   ELSE ProjCommit([f0 EXCEPT
                            !.cache = Append(@, project),
                            !.accepted = Append(@, project)])
    /\ UNCHANGED <<db, smvars, reqs, pending, ahvars, sysvars>>

\* update_project: get_project returns the handle's object; the supplied
\* fields are assigned in the order of the code, the permission mode is
\* checked when its turn comes, and the commit follows.
Proj_update_project ==
    /\ fn.op = "registry"
    /\ fn.ncalls < MaxProjCalls
    /\ \E project_id \in 1..Len(fn.stored), name \in {None, "one", "two"},
          permission_mode \in {None, "default", "manual", "yolo"} :
         LET named == IF name # None
                        THEN [fn.cache EXCEPT ![project_id].name = name]
                        ELSE fn.cache
             raised == IF permission_mode # None
                            /\ permission_mode \notin VALID_PERMISSION_MODES
                         THEN "ProjectValidationError" ELSE None
             moded == IF permission_mode # None
                        THEN [named EXCEPT ![project_id].permission_mode =
                                               permission_mode]
                        ELSE named
             f0 == [fn EXCEPT !.ncalls = @ + 1, !.raised = raised,
                              !.call = "update_project"]
             want == [fn.accepted EXCEPT
                        ![project_id].name =
                            IF name # None THEN name ELSE @,
                        ![project_id].permission_mode =
                            IF permission_mode # None THEN permission_mode
                            ELSE @]
         IN  fn' = IF raised # None THEN [f0 EXCEPT !.cache = named]
                   ELSE ProjCommit([f0 EXCEPT !.cache = moded,
                                              !.accepted = want])
    /\ UNCHANGED <<db, smvars, reqs, pending, ahvars, sysvars>>

NextProj ==
    \/ Proj_register_project
    \/ Proj_update_project

SpecProj == InitProj /\ [][NextProj]_vars

(***************************************************************************)
(* Claims settled under SpecProj                                           *)
(***************************************************************************)
\* C33: a rejected project mutation never reaches storage: a call that
\* raises leaves the projects table as it was, and the table always holds
\* what the calls that returned normally wrote, also after later commits on
\* the same handle.
C33_RejectedNeverStored ==
    /\ [][ (fn.op = "registry" /\ fn'.raised # None)
             => fn'.stored = fn.stored ]_vars
    /\ [](fn.op = "registry" => fn.stored = fn.accepted)

(***************************************************************************)
(* SpecWS: the ConnectionManager of the live-update endpoint               *)
(***************************************************************************)
MaxSockets == 3
MaxBroadcasts == 2

\* list.remove(websocket) inside disconnect: the first entry that is the
\* websocket goes; a websocket that is not in the list leaves it as it is
\* (the ValueError is swallowed).  An empty list and a missing key read the
\* same through _connections.get(session_id, []).
disconnect(connections, websocket, session_id) ==
    LET l == connections[session_id]
        at == {i \in 1..Len(l) : l[i] = websocket}
    IN  IF at = {} THEN connections
        ELSE LET k == CHOOSE i \in at : \A j \in at : i <= j
             IN  [connections EXCEPT ![session_id] =
                     SubSeq(l, 1, k - 1) \o SubSeq(l, k + 1, Len(l))]

NoBroadcast == [pc |-> "idle", session_id |-> None, connections |-> << >>,
                results |-> << >>, sends |-> [w \in 1..MaxSockets |-> 0]]

\* _connections: session id -> list of websockets; owner and open: the
\* session each endpoint call serves and the calls still running; bc: the
\* broadcast calls (sends counts the send_text calls of one broadcast).
InitWS ==
    /\ db = NewSession
    /\ tcache = NotLoaded
    /\ call = NoCall
    /\ reqs = << >>
    /\ pending = [s \in Sessions |-> 0]
    /\ ahcall = NoAHCall
    /\ turn = NoTurn
    /\ turns = 0
    /\ active = FALSE
    /\ callback = FALSE
    /\ hooks = [h \in Hooks |-> NoHook]
    /\ nhooks = 0
    /\ fg = NoRequest
    /\ nfg = 0
    /\ fn = [op |-> "ws", connections |-> [s \in Sessions |-> << >>],
             owner |-> << >>, open |-> {},
             bc |-> [c \in 1..MaxBroadcasts |-> NoBroadcast]]

\* websocket_session_stream up to manager.connect: a new websocket is
\* accepted and appended to the list of its session.
WS_connect ==
    /\ fn.op = "ws"
    /\ Len(fn.owner) < MaxSockets
    /\ \E session_id \in Sessions :
         LET websocket == Len(fn.owner) + 1
         IN  fn' = [fn EXCEPT
                      !.connections[session_id] = Append(@, websocket),
                      !.owner = Append(@, session_id),
                      !.open = @ \cup {websocket}]
    /\ UNCHANGED <<db, smvars, reqs, pending, ahvars, sysvars>>

\* The finally block of websocket_session_stream: the endpoint call ends
\* and disconnects its own websocket.
WS_disconnect ==
    /\ fn.op = "ws"
    /\ \E websocket \in fn.open :
         fn' = [fn EXCEPT
                  !.connections =
                      disconnect(@, websocket, fn.owner[websocket]),
                  !.open = @ \ {websocket}]
    /\ UNCHANGED <<db, smvars, reqs, pending, ahvars, sysvars>>

\* A broadcast that copies the lists of every session.
WS_broadcast_EverySession ==
    /\ fn.op = "ws"
    /\ \E c \in 1..MaxBroadcasts, session_id \in Sessions :
         /\ fn.bc[c].pc = "idle"
         /\ \A d \in 1..(c - 1) : fn.bc[d].pc # "idle"
         /\ LET connections == fn.connections["A"] \o fn.connections["B"]
            IN  fn' = [fn EXCEPT !.bc[c] =
                      [NoBroadcast EXCEPT
                         !.pc = IF connections = << >> THEN "done"
                                ELSE "send",
                         !.session_id = session_id,
                         !.connections = connections,
                         !.results = [i \in 1..Len(connections) |->
                                          "pending"]]]
    /\ UNCHANGED <<db, smvars, reqs, pending, ahvars, sysvars>>

\* broadcast, first part: under the lock the list of the session is copied;
\* with no connection the call returns.
WS_broadcast ==
    /\ fn.op = "ws"
    /\ \E c \in 1..MaxBroadcasts, session_id \in Sessions :
         /\ fn.bc[c].pc = "idle"
         /\ \A d \in 1..(c - 1) : fn.bc[d].pc # "idle"
         /\ LET connections == fn.connections[session_id]
            IN  fn' = [fn EXCEPT !.bc[c] =
                      [NoBroadcast EXCEPT
                         !.pc = IF connections = << >> THEN "done"
                                ELSE "send",
                         !.session_id = session_id,
                         !.connections = connections,
                         !.results = [i \in 1..Len(connections) |->
                                          "pending"]]]
    /\ UNCHANGED <<db, smvars, reqs, pending, ahvars, sysvars>>

\* safe_send of one copied connection, run by asyncio.gather in any order:
\* send_text is called once and succeeds or raises; gather returns when
\* every safe_send has returned.
WS_safe_send ==
    /\ fn.op = "ws"
    /\ \E c \in 1..MaxBroadcasts :
         /\ fn.bc[c].pc = "send"
         /\ \E i \in 1..Len(fn.bc[c].connections),
               success \in BOOLEAN :
              /\ fn.bc[c].results[i] = "pending"
              /\ LET ws == fn.bc[c].connections[i]
                     results == [fn.bc[c].results EXCEPT ![i] =
                                    IF success THEN "sent" ELSE "failed"]
                 IN  fn' = [fn EXCEPT
                              !.bc[c].results = results,
                              !.bc[c].sends[ws] = @ + 1,
                              !.bc[c].pc =
                                  IF \A j \in DOMAIN results :
                                        results[j] # "pending"
                                    THEN "remove" ELSE "send"]
    /\ UNCHANGED <<db, smvars, reqs, pending, ahvars, sysvars>>

\* The loop over the results: the next failed connection is disconnected
\* (one acquisition of the lock each), and after the last result the call
\* returns.  A result that was handled is marked "removed".
WS_remove_failed ==
    /\ fn.op = "ws"
    /\ \E c \in 1..MaxBroadcasts :
         /\ fn.bc[c].pc = "remove"
         /\ LET b == fn.bc[c]
                failed == {i \in DOMAIN b.results : b.results[i] = "failed"}
            IN  IF failed = {}
                  THEN fn' = [fn EXCEPT !.bc[c].pc = "done"]
                  ELSE LET i == CHOOSE k \in failed :
                                    \A j \in failed : k <= j
                       IN  fn' = [fn EXCEPT
                                    !.connections =
                                        disconnect(@, b.connections[i],
                                                   b.session_id),
                                    !.bc[c].results[i] = "removed"]
    /\ UNCHANGED <<db, smvars, reqs, pending, ahvars, sysvars>>

\* stream_task.cancel() in the finally block of the endpoint: a broadcast
\* awaiting the sends or the lock ends with CancelledError.
WS_cancel ==
    /\ fn.op = "ws"
    /\ \E c \in 1..MaxBroadcasts :
         /\ fn.bc[c].pc \in {"send", "remove"}
         /\ fn' = [fn EXCEPT !.bc[c].pc = "cancelled"]
    /\ UNCHANGED <<db, smvars, reqs, pending, ahvars, sysvars>>

NextWS ==
    \/ WS_connect
    \/ WS_disconnect
    \/ WS_broadcast
    \/ WS_safe_send
    \/ WS_remove_failed
    \/ WS_cancel

SpecWS == InitWS /\ [][NextWS]_vars

(***************************************************************************)
(* Claims settled under SpecWS                                             *)
(***************************************************************************)
Registered(f, ws, s) == \E i \in 1..Len(f.connections[s]) :
                            f.connections[s][i] = ws

\* Within one broadcast call: send_text is called at most once per
\* websocket, and only on websockets of the call's session.
SendsOnceOwnSession ==
    \A c \in 1..MaxBroadcasts, ws \in 1..MaxSockets :
        /\ fn.bc[c].sends[ws] <= 1
        /\ fn.bc[c].sends[ws] = 1 =>
               /\ ws <= Len(fn.owner)
               /\ fn.owner[ws] = fn.bc[c].session_id

\* When the call has returned, every connection whose send failed is off
\* the list of the session.
FailedAreRemoved ==
    \A c \in 1..MaxBroadcasts :
        fn.bc[c].pc = "done" =>
            \A i \in 1..Len(fn.bc[c].connections) :
                /\ fn.bc[c].results[i] \in {"sent", "removed"}
                /\ fn.bc[c].results[i] = "removed" =>
                       ~Registered(fn, fn.bc[c].connections[i],
                                   fn.bc[c].session_id)

\* A websocket leaves a list only when its own endpoint call ends or a
\* broadcast of that session removes it after its send failed.
OnlyFailedLeave ==
    \A s \in Sessions, ws \in 1..MaxSockets :
        (Registered(fn, ws, s) /\ ~Registered(fn', ws, s)) =>
            \/ ws \in fn.open /\ ws \notin fn'.open
            \/ \E c \in 1..MaxBroadcasts :
                 \E i \in 1..Len(fn.bc[c].connections) :
                    /\ fn.bc[c].session_id = s
                    /\ fn.bc[c].connections[i] = ws
                    /\ fn.bc[c].results[i] = "failed"
                    /\ fn'.bc[c].results[i] = "removed"

\* C31: one broadcast call sends to each connection of its session at most
\* once, removes the connections whose send failed without retrying them,
\* leaves the connections whose send succeeded registered, and sends
\* nothing to connections of other sessions.
C31_BroadcastAtMostOnce ==
    /\ [](fn.op = "ws" => SendsOnceOwnSession /\ FailedAreRemoved)
    /\ [][ fn.op = "ws" => OnlyFailedLeave ]_vars

\* A returned broadcast with one failed and one successful send, the
\* successful connection still registered, and a connection of the other
\* session that was sent nothing.
C31_Witness ==
    /\ fn.op = "ws"
    /\ \E c \in 1..MaxBroadcasts :
         /\ fn.bc[c].pc = "done"
         /\ \E i, j \in 1..Len(fn.bc[c].connections) :
              /\ fn.bc[c].results[i] = "removed"
              /\ fn.bc[c].results[j] = "sent"
              /\ Registered(fn, fn.bc[c].connections[j], fn.bc[c].session_id)
              /\ ~Registered(fn, fn.bc[c].connections[i],
                             fn.bc[c].session_id)
         /\ \E ws \in 1..Len(fn.owner) :
              /\ fn.owner[ws] # fn.bc[c].session_id
              /\ Registered(fn, ws, fn.owner[ws])
              /\ fn.bc[c].sends[ws] = 0
====
